---- MODULE Spec2Model ----
(***************************************************************************)
(* Model of the investigation-board graph server: the transactional graph  *)
(* client (typedb_client.py, class TypeDBClient) with its cached active    *)
(* version, and the diff synchronizer TypeDBClient.update_graph.           *)
(*                                                                         *)
(* Python values: a str is a TLA+ string, a float with an integral value   *)
(* is an integer, and the Python object None is the distinguished value    *)
(* None below (never equal to a Python str of the model, in particular     *)
(* not to the str "None").                                                 *)
(***************************************************************************)
EXTENDS Integers, Sequences, FiniteSets, TLC

VARIABLES
    store,           \* the engine's database: versions, active, nodes, edges
    active_version,  \* client: TypeDBClient.active_version (the cache)
    pc,              \* update_graph: "idle", "run", "done" or "failed"
    version,         \* update_graph: the version argument
    nodes,           \* update_graph: the nodes argument (desired list)
    edges,           \* update_graph: the edges argument (desired list)
    db_nodes,        \* update_graph: db_graph["nodes"] read at the start
    db_edges,        \* update_graph: db_graph["edges"] read at the start
    pending,         \* update_graph: the write calls still to be issued
    log,             \* update_graph: the write calls issued and committed
    failed,          \* update_graph: the call that raised, or <<>>
    error,           \* the exception the last finished call raised, or "none"
    reads,           \* update_graph: graph_by_version_get reads of this call
    repeat,          \* history: this call repeats the previous successful one
    calls,           \* history: update_graph calls made so far
    lastCall,        \* history: the last finished client call
    lastCached,      \* history: what the last successful load/set cached
    debug,           \* environment: DEBUG_DB is set
    databases,       \* engine: the names of the databases that exist
    engine,          \* history: the engine calls of the last client call
    lastDocs,        \* history: the documents the last read returned
    returned,        \* history: the value the last client call returned
    syncs,           \* concurrent update_graph calls: caller -> its frame
    commits,         \* history: the writes committed by concurrent callers
    spec_data,       \* template driver: the specification array it was given
    _operations,     \* template driver: TypeQLTemplateDriver._operations
    loaded,          \* template driver: how its constructor ended
    answer,          \* history: the last template driver call and its result
    held             \* caller: the mutable object the last call left with it

syncVars == <<pc, version, nodes, edges, db_nodes, db_edges, pending, log,
              failed, reads, repeat>>
envVars == <<debug, databases, engine>>
readVars == <<lastDocs, returned>>
concVars == <<syncs, commits>>
tmplVars == <<spec_data, _operations, loaded, answer, held>>
vars == <<store, active_version, pc,
          version, nodes, edges, db_nodes, db_edges, pending, log, failed,
          error, reads, repeat, calls, lastCall, lastCached,
          debug, databases, engine, lastDocs, returned, syncs, commits,
          spec_data, _operations, loaded, answer, held>>

----------------------------------------------------------------------------
(* Bounds and input sets *)

MaxDesired == 2      \* len(nodes) + len(edges) of one update_graph call
MaxCalls == 2        \* update_graph calls in one behaviour
MaxNodeId == 2       \* node ids are 1..MaxNodeId
MaxEdgeId == 2       \* edge ids are 1..MaxEdgeId
MaxDocs == 2         \* documents in the answer of one read
MaxConcDesired == 2  \* len(nodes) + len(edges) of a concurrent update_graph call
MaxEntries == 3      \* entries of a specification array

None == "#None"

Versions == {"v1", "v2"}
NodeIds == 1..MaxNodeId
EdgeIds == 1..MaxEdgeId

\* attribute tuples of a desired node (NodeDTO minus node_id); picture_path
\* and description are Optional[str] with default None
NodeAttrs ==
    { [name |-> "a", pos_x |-> 0, pos_y |-> 0, picture_path |-> "p", description |-> "d"],
      [name |-> "b", pos_x |-> 1, pos_y |-> 1, picture_path |-> "p", description |-> "d"],
      [name |-> "a", pos_x |-> 0, pos_y |-> 0, picture_path |-> None, description |-> None] }

\* attribute tuples of a desired edge (EdgeDTO minus edge_id); description is
\* Optional[str] with default None
EdgeAttrs ==
    { [node1 |-> 1, node2 |-> 2, description |-> "d"],
      [node1 |-> 2, node2 |-> 2, description |-> "d"],
      [node1 |-> 1, node2 |-> 2, description |-> None] }

NodeDTO(i, a) ==
    [node_id |-> i, name |-> a.name, pos_x |-> a.pos_x, pos_y |-> a.pos_y,
     picture_path |-> a.picture_path, description |-> a.description]

EdgeDTO(i, a) ==
    [edge_id |-> i, node1 |-> a.node1, node2 |-> a.node2, description |-> a.description]

NodeInputs == {NodeDTO(i, a) : i \in NodeIds, a \in NodeAttrs}
EdgeInputs == {EdgeDTO(i, a) : i \in EdgeIds, a \in EdgeAttrs}

SeqsUpTo(S, n) == UNION {[1..k -> S] : k \in 0..n}

----------------------------------------------------------------------------
(* Python helpers *)

\* str(x) of an int id: its decimal text
StrId(i) == ToString(i)

\* str.format of a str or None parameter: "{p}".format(p=None) is "None"
Format(v) == IF v = None THEN "None" ELSE v

RECURSIVE Concat(_)
Concat(ss) == IF ss = <<>> THEN <<>> ELSE Head(ss) \o Concat(Tail(ss))

\* the keys of the dict built by inserting keyOf[i] for i = 1..n in order:
\* each key once, at the position of its first insertion
RECURSIVE DictKeys(_)
DictKeys(ks) ==
    IF ks = <<>> THEN <<>>
    ELSE LET init == DictKeys(SubSeq(ks, 1, Len(ks) - 1))
             k == ks[Len(ks)]
         IN  IF \E j \in 1..Len(init) : init[j] = k THEN init ELSE Append(init, k)

\* faulty variant: the first item inserted under the key is kept
DictGet_first(items, ks, k) ==
    items[CHOOSE i \in 1..Len(items) :
            /\ ks[i] = k
            /\ \A j \in 1..(i - 1) : ks[j] # k]

\* the value the dict holds for key k: the last item inserted under it
DictGet(items, ks, k) ==
    items[CHOOSE i \in 1..Len(items) :
            /\ ks[i] = k
            /\ \A j \in (i + 1)..Len(items) : ks[j] # k]

Range(s) == {s[i] : i \in 1..Len(s)}

----------------------------------------------------------------------------
(* The engine's database, as the catalog operations act on it.            *)
(* store.versions : the board versions that exist                         *)
(* store.active   : the investigation's active version, or None           *)
(* store.nodes[v] : node id (text) -> attributes, for every v in Versions *)
(* store.edges[v] : edge id (text) -> attributes                          *)

Empty == [k \in {} |-> None]

Put(f, k, val) == [x \in DOMAIN f \cup {k} |-> IF x = k THEN val ELSE f[x]]

Drop(f, k) == [x \in DOMAIN f \ {k} |-> f[x]]

\* the effect of a committed write query on the database
ApplyWrite(st, q) ==
    CASE q.op = "node-create" ->
           IF q.version \in st.versions
           THEN [st EXCEPT !.nodes[q.version] =
                    Put(@, q.node_id,
                        [name |-> q.name, pos_x |-> q.pos_x, pos_y |-> q.pos_y,
                         picture_path |-> q.picture_path,
                         description |-> q.description])]
           ELSE st
      [] q.op = "node-update" ->
           IF q.version \in st.versions /\ q.node_id \in DOMAIN st.nodes[q.version]
           THEN [st EXCEPT !.nodes[q.version][q.node_id] =
                    [name |-> q.name, pos_x |-> q.pos_x, pos_y |-> q.pos_y,
                     picture_path |-> q.picture_path,
                     description |-> q.description]]
           ELSE st
      [] q.op = "node-delete" ->
           IF q.version \in st.versions
           THEN [st EXCEPT !.nodes[q.version] = Drop(@, q.node_id)]
           ELSE st
      [] q.op = "edge-create" ->
           IF q.version \in st.versions
           THEN [st EXCEPT !.edges[q.version] =
                    Put(@, q.edge_id,
                        [node1 |-> q.node1_id, node2 |-> q.node2_id,
                         description |-> q.description])]
           ELSE st
      [] q.op = "edge-update" ->
           IF q.version \in st.versions /\ q.edge_id \in DOMAIN st.edges[q.version]
           THEN [st EXCEPT !.edges[q.version][q.edge_id].description = q.description]
           ELSE st
      [] q.op = "edge-delete" ->
           IF q.version \in st.versions
           THEN [st EXCEPT !.edges[q.version] = Drop(@, q.edge_id)]
           ELSE st
      [] q.op = "graph-by-version-create" ->
           IF q.version \in st.versions THEN st
           ELSE [st EXCEPT !.versions = @ \cup {q.version}]
      [] q.op = "graph-by-version-delete" ->
           [st EXCEPT !.versions = @ \ {q.version},
                      !.nodes[q.version] = Empty,
                      !.edges[q.version] = Empty]
      [] q.op = "set-active-version" ->
           [st EXCEPT !.active = q.version]

\* the orders in which a read may list the entries of f
Orderings(f) ==
    {s \in [1..Cardinality(DOMAIN f) -> DOMAIN f] :
        \A i, j \in 1..Cardinality(DOMAIN f) : i # j => s[i] # s[j]}

NodeDoc(f, k) ==
    [node_id |-> k, name |-> f[k].name, pos_x |-> f[k].pos_x, pos_y |-> f[k].pos_y,
     picture_path |-> f[k].picture_path, description |-> f[k].description]

EdgeDoc(f, k) ==
    [edge_id |-> k, node1 |-> f[k].node1, node2 |-> f[k].node2,
     description |-> f[k].description]

\* the documents graph-by-version-get can return for version v: one document
\* per existing version, its nodes and edges listed in any order
GraphDocs(st, v) ==
    IF v \notin st.versions THEN {<<>>}
    ELSE {<<[version |-> v,
             nodes |-> [i \in 1..Len(no) |-> NodeDoc(st.nodes[v], no[i])],
             edges |-> [i \in 1..Len(eo) |-> EdgeDoc(st.edges[v], eo[i])]]>> :
            no \in Orderings(st.nodes[v]), eo \in Orderings(st.edges[v])}

----------------------------------------------------------------------------
(* The client's write calls and the queries they render.                   *)
(* A call is the record of a client method's arguments; op is the catalog  *)
(* operation the method names.                                             *)

node_create(node_id, name, pos_x, pos_y, picture_path, description, ver) ==
    [op |-> "node-create", version |-> ver, node_id |-> node_id, name |-> name,
     pos_x |-> pos_x, pos_y |-> pos_y, picture_path |-> picture_path,
     description |-> description]

node_update(node_id, name, pos_x, pos_y, picture_path, description, ver) ==
    [op |-> "node-update", version |-> ver, node_id |-> node_id, name |-> name,
     pos_x |-> pos_x, pos_y |-> pos_y, picture_path |-> picture_path,
     description |-> description]

node_delete(node_id, ver) ==
    [op |-> "node-delete", version |-> ver, node_id |-> node_id]

edge_create(edge_id, node1_id, node2_id, description, ver) ==
    [op |-> "edge-create", version |-> ver, edge_id |-> edge_id,
     node1_id |-> node1_id, node2_id |-> node2_id, description |-> description]

edge_update(edge_id, description, ver) ==
    [op |-> "edge-update", version |-> ver, edge_id |-> edge_id,
     description |-> description]

edge_delete(edge_id, ver) ==
    [op |-> "edge-delete", version |-> ver, edge_id |-> edge_id]

\* _build_query: template.format(**params) puts the text of every parameter
\* into the query; a number is written and read back as the same number
_build_query(c) ==
    CASE c.op \in {"node-create", "node-update"} ->
           [op |-> c.op, version |-> Format(c.version), node_id |-> Format(c.node_id),
            name |-> Format(c.name), pos_x |-> c.pos_x, pos_y |-> c.pos_y,
            picture_path |-> Format(c.picture_path),
            description |-> Format(c.description)]
      [] c.op = "node-delete" ->
           [op |-> c.op, version |-> Format(c.version), node_id |-> Format(c.node_id)]
      [] c.op = "edge-create" ->
           [op |-> c.op, version |-> Format(c.version), edge_id |-> Format(c.edge_id),
            node1_id |-> Format(c.node1_id), node2_id |-> Format(c.node2_id),
            description |-> Format(c.description)]
      [] c.op = "edge-update" ->
           [op |-> c.op, version |-> Format(c.version), edge_id |-> Format(c.edge_id),
            description |-> Format(c.description)]
      [] c.op = "edge-delete" ->
           [op |-> c.op, version |-> Format(c.version), edge_id |-> Format(c.edge_id)]
      [] c.op \in {"graph-by-version-create", "graph-by-version-delete",
                   "set-active-version"} ->
           [op |-> c.op, version |-> Format(c.version)]

\* _resolve_version: the explicit version, else the cached active version,
\* else ActiveVersionError
\* faulty variant: a cached version is preferred to the given one
_resolve_version_cached_first(ver, cached) ==
    IF cached # None THEN [ok |-> TRUE, version |-> cached]
    ELSE IF ver # None THEN [ok |-> TRUE, version |-> ver]
    ELSE [ok |-> FALSE, version |-> None]

_resolve_version(ver, cached) ==
    IF ver # None THEN [ok |-> TRUE, version |-> ver]
    ELSE IF cached = None THEN [ok |-> FALSE, version |-> None]
    ELSE [ok |-> TRUE, version |-> cached]

----------------------------------------------------------------------------
(* update_graph: the write calls it issues, in order, for the graph read   *)
(* at its start (dbn, dbe) and the desired lists (ns, es).                 *)

\* float(x) of a number: the same number
Float(x) == x

db_node_keys(dbn) == DictKeys([i \in 1..Len(dbn) |-> dbn[i].node_id])
new_node_keys(ns) == DictKeys([i \in 1..Len(ns) |-> StrId(ns[i].node_id)])
db_edge_keys(dbe) == DictKeys([i \in 1..Len(dbe) |-> dbe[i].edge_id])
new_edge_keys(es) == DictKeys([i \in 1..Len(es) |-> StrId(es[i].edge_id)])

db_nodes_by_id(dbn, k) == DictGet(dbn, [i \in 1..Len(dbn) |-> dbn[i].node_id], k)
new_nodes_by_id(ns, k) == DictGet(ns, [i \in 1..Len(ns) |-> StrId(ns[i].node_id)], k)
db_edges_by_id(dbe, k) == DictGet(dbe, [i \in 1..Len(dbe) |-> dbe[i].edge_id], k)
new_edges_by_id(es, k) == DictGet(es, [i \in 1..Len(es) |-> StrId(es[i].edge_id)], k)
\* faulty variant: every node present in both is taken as changed
need_update_always(db_node, node_obj) == TRUE


need_update(db_node, node_obj) ==
    \/ db_node.name # node_obj.name
    \/ Float(db_node.pos_x) # Float(node_obj.pos_x)
    \/ Float(db_node.pos_y) # Float(node_obj.pos_y)
    \/ db_node.picture_path # node_obj.picture_path
    \/ db_node.description # node_obj.description

endpoints_changed(db_edge, edge_obj) ==
    \/ db_edge.node1 # StrId(edge_obj.node1)
    \/ db_edge.node2 # StrId(edge_obj.node2)

desc_changed(db_edge, edge_obj) == db_edge.description # edge_obj.description

\* 1) delete the nodes that are no longer in the input
NodeDeletes(dbn, ns, ver) ==
    LET dk == db_node_keys(dbn)
        nk == Range(new_node_keys(ns))
    IN  Concat([i \in 1..Len(dk) |->
                  IF dk[i] \notin nk THEN <<node_delete(dk[i], ver)>> ELSE <<>>])

\* faulty variant: no node is created
NodeCreates_none(dbn, ns, ver) == <<>>

\* 2) create the nodes that are not in the database
NodeCreates(dbn, ns, ver) ==
    LET nk == new_node_keys(ns)
        dk == Range(db_node_keys(dbn))
    IN  Concat([i \in 1..Len(nk) |->
                  IF nk[i] \notin dk
                  THEN LET o == new_nodes_by_id(ns, nk[i])
                       IN  <<node_create(nk[i], o.name, Float(o.pos_x), Float(o.pos_y),
                                         o.picture_path, o.description, ver)>>
                  ELSE <<>>])

\* 3) update the nodes that are in both and differ
NodeUpdates(dbn, ns, ver) ==
    LET dk == db_node_keys(dbn)
        nk == Range(new_node_keys(ns))
    IN  Concat([i \in 1..Len(dk) |->
                  IF dk[i] \notin nk THEN <<>>
                  ELSE LET o == new_nodes_by_id(ns, dk[i])
                       IN  IF need_update(db_nodes_by_id(dbn, dk[i]), o)
                           THEN <<node_update(dk[i], o.name, Float(o.pos_x),
                                              Float(o.pos_y), o.picture_path,
                                              o.description, ver)>>
                           ELSE <<>>])

\* 1) delete the edges that are no longer in the input
EdgeDeletes(dbe, es, ver) ==
    LET dk == db_edge_keys(dbe)
        nk == Range(new_edge_keys(es))
    IN  Concat([i \in 1..Len(dk) |->
                  IF dk[i] \notin nk THEN <<edge_delete(dk[i], ver)>> ELSE <<>>])
\* faulty variant: every desired edge is created, also one the database already has
EdgeCreates_all(dbe, es, ver) ==
    LET nk == new_edge_keys(es)
    IN  Concat([i \in 1..Len(nk) |->
                  LET o == new_edges_by_id(es, nk[i])
                  IN  <<edge_create(nk[i], StrId(o.node1), StrId(o.node2),
                                    o.description, ver)>>])

\* 2) create the edges that are not in the database
EdgeCreates(dbe, es, ver) ==
    LET nk == new_edge_keys(es)
        dk == Range(db_edge_keys(dbe))
    IN  Concat([i \in 1..Len(nk) |->
                  IF nk[i] \notin dk
                  THEN LET o == new_edges_by_id(es, nk[i])
                       IN  <<edge_create(nk[i], StrId(o.node1), StrId(o.node2),
                                         o.description, ver)>>
                  ELSE <<>>])
\* faulty variant: an endpoint change is written in place with edge_update
EdgeUpdates_in_place(dbe, es, ver) ==
    LET dk == db_edge_keys(dbe)
        nk == Range(new_edge_keys(es))
    IN  Concat([i \in 1..Len(dk) |->
                  IF dk[i] \notin nk THEN <<>>
                  ELSE LET o == new_edges_by_id(es, dk[i])
                           d == db_edges_by_id(dbe, dk[i])
                       IN  IF endpoints_changed(d, o) \/ desc_changed(d, o)
                           THEN <<edge_update(dk[i], o.description, ver)>>
                           ELSE <<>>])

\* 3) update the edges that are in both: delete and re-create on an endpoint
\*    change, else edge_update on a description change
EdgeUpdates(dbe, es, ver) ==
    LET dk == db_edge_keys(dbe)
        nk == Range(new_edge_keys(es))
    IN  Concat([i \in 1..Len(dk) |->
                  IF dk[i] \notin nk THEN <<>>
                  ELSE LET o == new_edges_by_id(es, dk[i])
                           d == db_edges_by_id(dbe, dk[i])
                       IN  IF endpoints_changed(d, o)
                           THEN <<edge_delete(dk[i], ver),
                                  edge_create(dk[i], StrId(o.node1), StrId(o.node2),
                                              o.description, ver)>>
                           ELSE IF desc_changed(d, o)
                           THEN <<edge_update(dk[i], o.description, ver)>>
                           ELSE <<>>])
\* faulty variant: the edge loops run before the node loops
update_graph_calls_edges_first(dbn, dbe, ns, es, ver) ==
    EdgeDeletes(dbe, es, ver) \o EdgeCreates(dbe, es, ver)
    \o EdgeUpdates(dbe, es, ver)
    \o NodeDeletes(dbn, ns, ver) \o NodeCreates(dbn, ns, ver) \o NodeUpdates(dbn, ns, ver)


update_graph_calls(dbn, dbe, ns, es, ver) ==
    NodeDeletes(dbn, ns, ver) \o NodeCreates(dbn, ns, ver) \o NodeUpdates(dbn, ns, ver)
    \o EdgeDeletes(dbe, es, ver) \o EdgeCreates(dbe, es, ver)
    \o EdgeUpdates(dbe, es, ver)

----------------------------------------------------------------------------
(* State after construction: TypeDBClient.__init__ leaves active_version   *)
(* None; the database holds the investigation with one empty board version.*)

\* TYPEDB_DB_NAME, the default of the constructor's db_name
db_name == "investigation_board"

\* no update_graph call of a concurrent caller is in progress
NoSyncs ==
    /\ syncs = <<>>
    /\ commits = <<>>

\* no template driver call has been made; the client's own driver is not
\* looked into
NoDriver ==
    /\ spec_data = <<>>
    /\ _operations = Empty
    /\ loaded = [out |-> "no", operation |-> None, file |-> None]
    /\ answer = [call |-> "none"]
    /\ held = [kind |-> "none"]

NoCall == [op |-> "none", version |-> None, resolved |-> None, outcome |-> "none"]

\* the client and the history variables right after construction
ClientInit ==
    /\ active_version = None
    /\ pc = "idle"
    /\ version = None
    /\ nodes = <<>>
    /\ edges = <<>>
    /\ db_nodes = <<>>
    /\ db_edges = <<>>
    /\ pending = <<>>
    /\ log = <<>>
    /\ failed = <<>>
    /\ error = "none"
    /\ reads = 0
    /\ repeat = FALSE
    /\ calls = 0
    /\ lastCall = NoCall
    /\ lastCached = None
    /\ engine = <<>>
    /\ lastDocs = <<>>
    /\ returned = None
    /\ NoDriver

Init ==
    /\ store = [versions |-> {"v1"}, active |-> "v1",
                nodes |-> [v \in Versions |-> Empty],
                edges |-> [v \in Versions |-> Empty]]
    /\ debug = FALSE
    /\ databases = {db_name}
    /\ ClientInit
    /\ NoSyncs

\* the exceptions a write call raises: _build_query, _execute_write
WriteErrors == {"TemplateProcessingError", "QueryExecutionError"}

----------------------------------------------------------------------------
(* update_graph, one action per transaction it runs *)

\* update_graph is entered and graph_by_version_get returns its one document
UpdateGraph(v, ns, es) ==
    /\ pc # "run"
    /\ calls < MaxCalls
    /\ calls' = calls + 1
    /\ \E docs \in GraphDocs(store, v) :
         /\ Len(docs) = 1
         /\ db_nodes' = docs[1].nodes
         /\ db_edges' = docs[1].edges
         /\ pending' = update_graph_calls(docs[1].nodes, docs[1].edges, ns, es,
                                          _resolve_version(v, active_version).version)
    /\ version' = v
    /\ nodes' = ns
    /\ edges' = es
    /\ log' = <<>>
    /\ failed' = <<>>
    /\ reads' = 1
    /\ repeat' = (pc = "done" /\ v = version /\ ns = nodes /\ es = edges)
    /\ pc' = IF pending' = <<>> THEN "done" ELSE "run"
    /\ error' = "none"
    /\ UNCHANGED <<envVars, readVars, concVars, tmplVars>>
    /\ UNCHANGED <<store, active_version, lastCall, lastCached>>

\* faulty variant: a failed read is taken for an empty graph and the sync
\* goes on
UpdateGraphReadFails_as_empty(v, ns, es) ==
    /\ pc # "run"
    /\ calls < MaxCalls
    /\ calls' = calls + 1
    /\ version' = v
    /\ nodes' = ns
    /\ edges' = es
    /\ db_nodes' = <<>>
    /\ db_edges' = <<>>
    /\ pending' = update_graph_calls(<<>>, <<>>, ns, es, v)
    /\ log' = <<>>
    /\ failed' = <<>>
    /\ reads' = 1
    /\ repeat' = FALSE
    /\ pc' = IF pending' = <<>> THEN "done" ELSE "run"
    /\ error' = "QueryExecutionError"
    /\ UNCHANGED <<envVars, readVars, concVars, tmplVars>>
    /\ UNCHANGED <<store, active_version, lastCall, lastCached>>

\* update_graph is entered and graph_by_version_get raises: the read
\* transaction fails, or it returns no document (the version does not exist)
UpdateGraphReadFails(v, ns, es) ==
    /\ pc # "run"
    /\ calls < MaxCalls
    /\ calls' = calls + 1
    /\ version' = v
    /\ nodes' = ns
    /\ edges' = es
    /\ db_nodes' = <<>>
    /\ db_edges' = <<>>
    /\ pending' = <<>>
    /\ log' = <<>>
    /\ failed' = <<>>
    /\ reads' = 1
    /\ repeat' = FALSE
    /\ pc' = "failed"
    /\ error' = "QueryExecutionError"
    /\ UNCHANGED <<envVars, readVars, concVars, tmplVars>>
    /\ UNCHANGED <<store, active_version, lastCall, lastCached>>

\* the next write call of the sequence commits
IssueCall ==
    /\ pc = "run"
    /\ store' = ApplyWrite(store, _build_query(Head(pending)))
    /\ log' = Append(log, Head(pending))
    /\ pending' = Tail(pending)
    /\ pc' = IF Tail(pending) = <<>> THEN "done" ELSE "run"
    /\ UNCHANGED <<envVars, readVars, concVars, tmplVars>>
    /\ UNCHANGED <<active_version, version, nodes, edges, db_nodes, db_edges,
                   failed, error, reads, repeat, calls, lastCall, lastCached>>
\* faulty variant: the exception of a write call is swallowed and the sequence goes on
IssueCallFails_swallowed(e) ==
    /\ pc = "run"
    /\ failed' = <<Head(pending)>>
    /\ pending' = Tail(pending)
    /\ pc' = IF Tail(pending) = <<>> THEN "done" ELSE "run"
    /\ error' = e
    /\ UNCHANGED <<envVars, readVars, concVars, tmplVars>>
    /\ UNCHANGED <<store, active_version, version, nodes, edges, db_nodes,
                   db_edges, log, reads, repeat, calls, lastCall, lastCached>>

\* the next write call raises: _build_query (TemplateProcessingError) or
\* _execute_write (QueryExecutionError: open, query or commit failed, nothing
\* is committed); the exception leaves update_graph
IssueCallFails(e) ==
    /\ pc = "run"
    /\ failed' = <<Head(pending)>>
    /\ pc' = "failed"
    /\ error' = e
    /\ UNCHANGED <<envVars, readVars, concVars, tmplVars>>
    /\ UNCHANGED <<store, active_version, version, nodes, edges, db_nodes,
                   db_edges, pending, log, reads, repeat, calls, lastCall,
                   lastCached>>

Next ==
    \/ \E v \in Versions, k \in 0..MaxDesired :
         \E ns \in [1..k -> NodeInputs], es \in SeqsUpTo(EdgeInputs, MaxDesired - k) :
            UpdateGraph(v, ns, es)
    \/ \E v \in Versions, k \in 0..MaxDesired :
         \E ns \in [1..k -> NodeInputs], es \in SeqsUpTo(EdgeInputs, MaxDesired - k) :
            UpdateGraphReadFails(v, ns, es)
    \/ IssueCall
    \/ \E e \in WriteErrors : IssueCallFails(e)

Spec == Init /\ [][Next]_vars

----------------------------------------------------------------------------
(* The client's single-transaction methods.  lastCall records the call     *)
(* that just finished: its operation, its version argument (None when      *)
(* omitted), the version it resolved and its outcome ("ok" or the          *)
(* exception raised).                                                      *)

Outcomes == {"ok"} \cup WriteErrors

Finished(op, ver, resolved, out) ==
    [op |-> op, version |-> ver, resolved |-> resolved, outcome |-> out]

\* faulty variant: a failing load clears the cache
LoadActiveVersion_reset ==
    /\ \E out \in Outcomes :
         IF out = "ok" /\ store.active # None
         THEN /\ active_version' = store.active
              /\ lastCached' = store.active
              /\ error' = "none"
              /\ lastCall' = Finished("get-active-version", None, store.active, "ok")
         ELSE /\ active_version' = None
              /\ lastCached' = lastCached
              /\ error' = IF out = "ok" THEN "ActiveVersionError" ELSE out
              /\ lastCall' = Finished("get-active-version", None, None,
                                      IF out = "ok" THEN "ActiveVersionError" ELSE out)
    /\ UNCHANGED <<envVars, readVars, concVars, tmplVars>>
    /\ UNCHANGED <<store, pc, version, nodes, edges, db_nodes, db_edges, pending,
                   log, failed, reads, repeat, calls>>

\* load_active_version: read get-active-version and cache the value of the
\* first document that has the field active_version
LoadActiveVersion ==
    /\ \E out \in Outcomes :
         IF out # "ok"
         THEN /\ active_version' = active_version
              /\ lastCached' = lastCached
              /\ error' = out
              /\ lastCall' = Finished("get-active-version", None, None, out)
         ELSE IF store.active = None
         THEN /\ active_version' = active_version
              /\ lastCached' = lastCached
              /\ error' = "ActiveVersionError"
              /\ lastCall' = Finished("get-active-version", None, None,
                                      "ActiveVersionError")
         ELSE /\ active_version' = store.active
              /\ lastCached' = store.active
              /\ error' = "none"
              /\ lastCall' = Finished("get-active-version", None, store.active, "ok")
    /\ UNCHANGED <<envVars, readVars, concVars, tmplVars>>
    /\ UNCHANGED <<store, pc, version, nodes, edges, db_nodes, db_edges, pending,
                   log, failed, reads, repeat, calls>>

\* faulty variant: the cache is written before the write is executed
SetActiveVersion_cache_first(v) ==
    /\ \E out \in Outcomes :
         /\ store' = IF out = "ok"
                     THEN ApplyWrite(store,
                            _build_query([op |-> "set-active-version", version |-> v]))
                     ELSE store
         /\ active_version' = v
         /\ lastCached' = IF out = "ok" THEN v ELSE lastCached
         /\ error' = IF out = "ok" THEN "none" ELSE out
         /\ lastCall' = Finished("set-active-version", v, v, out)
    /\ UNCHANGED <<envVars, readVars, concVars, tmplVars>>
    /\ UNCHANGED <<pc, version, nodes, edges, db_nodes, db_edges, pending, log,
                   failed, reads, repeat, calls>>

\* set_active_version: build the query, execute the write, then set the cache
SetActiveVersion(v) ==
    /\ \E out \in Outcomes :
         /\ store' = IF out = "ok"
                     THEN ApplyWrite(store,
                            _build_query([op |-> "set-active-version", version |-> v]))
                     ELSE store
         /\ active_version' = IF out = "ok" THEN v ELSE active_version
         /\ lastCached' = IF out = "ok" THEN v ELSE lastCached
         /\ error' = IF out = "ok" THEN "none" ELSE out
         /\ lastCall' = Finished("set-active-version", v, v, out)
    /\ UNCHANGED <<envVars, readVars, concVars, tmplVars>>
    /\ UNCHANGED <<pc, version, nodes, edges, db_nodes, db_edges, pending, log,
                   failed, reads, repeat, calls>>

\* graph_by_version_create: the version is a required argument
GraphByVersionCreate(v) ==
    /\ \E out \in Outcomes :
         /\ store' = IF out = "ok"
                     THEN ApplyWrite(store,
                            _build_query([op |-> "graph-by-version-create",
                                          version |-> v]))
                     ELSE store
         /\ error' = IF out = "ok" THEN "none" ELSE out
         /\ lastCall' = Finished("graph-by-version-create", v, v, out)
    /\ UNCHANGED <<envVars, readVars, concVars, tmplVars>>
    /\ UNCHANGED <<active_version, lastCached, pc, version, nodes, edges, db_nodes,
                   db_edges, pending, log, failed, reads, repeat, calls>>

\* a write method with an optional version: _resolve_version, _build_query,
\* _execute_write; Call(v) is the call for the resolved version v
VersionedWrite(ver, Call(_)) ==
    /\ LET r == _resolve_version(ver, active_version)
       IN  IF ~r.ok
           THEN /\ store' = store
                /\ error' = "ActiveVersionError"
                /\ lastCall' = Finished(Call(None).op, ver, None, "ActiveVersionError")
           ELSE \E out \in Outcomes :
                  /\ store' = IF out = "ok"
                              THEN ApplyWrite(store, _build_query(Call(r.version)))
                              ELSE store
                  /\ error' = IF out = "ok" THEN "none" ELSE out
                  /\ lastCall' = Finished(Call(None).op, ver, r.version, out)
    /\ UNCHANGED <<envVars, readVars, concVars, tmplVars>>
    /\ UNCHANGED <<active_version, lastCached, pc, version, nodes, edges, db_nodes,
                   db_edges, pending, log, failed, reads, repeat, calls>>

GraphByVersionDelete(ver) ==
    LET Call(v) == [op |-> "graph-by-version-delete", version |-> v]
    IN  VersionedWrite(ver, Call)

NodeCreate(n, ver) ==
    LET Call(v) == node_create(StrId(n.node_id), n.name, n.pos_x, n.pos_y,
                               n.picture_path, n.description, v)
    IN  VersionedWrite(ver, Call)

NodeUpdate(n, ver) ==
    LET Call(v) == node_update(StrId(n.node_id), n.name, n.pos_x, n.pos_y,
                               n.picture_path, n.description, v)
    IN  VersionedWrite(ver, Call)

NodeDelete(n, ver) ==
    LET Call(v) == node_delete(StrId(n.node_id), v)
    IN  VersionedWrite(ver, Call)

\* faulty variant: the endpoints are passed in the other order
EdgeCreate_swapped(e, ver) ==
    LET Call(v) == edge_create(StrId(e.edge_id), StrId(e.node2), StrId(e.node1),
                               e.description, v)
    IN  VersionedWrite(ver, Call)

EdgeCreate(e, ver) ==
    LET Call(v) == edge_create(StrId(e.edge_id), StrId(e.node1), StrId(e.node2),
                               e.description, v)
    IN  VersionedWrite(ver, Call)

EdgeUpdate(e, ver) ==
    LET Call(v) == edge_update(StrId(e.edge_id), e.description, v)
    IN  VersionedWrite(ver, Call)

EdgeDelete(e, ver) ==
    LET Call(v) == edge_delete(StrId(e.edge_id), v)
    IN  VersionedWrite(ver, Call)

\* graph_by_version_get: _resolve_version, _build_query, _execute_read, then
\* exactly one document is required
GraphByVersionGet(ver) ==
    /\ LET r == _resolve_version(ver, active_version)
       IN  IF ~r.ok
           THEN /\ error' = "ActiveVersionError"
                /\ lastCall' = Finished("graph-by-version-get", ver, None,
                                        "ActiveVersionError")
                /\ lastDocs' = <<>>
                /\ returned' = None
           ELSE \E out \in Outcomes, ds \in GraphDocs(store, r.version) :
                  LET res == IF out = "ok" /\ Len(ds) # 1
                             THEN "QueryExecutionError" ELSE out
                  IN  /\ error' = IF res = "ok" THEN "none" ELSE res
                      /\ lastCall' = Finished("graph-by-version-get", ver,
                                              r.version, res)
                      /\ lastDocs' = IF out = "ok" THEN ds ELSE <<>>
                      /\ returned' = IF res = "ok" THEN ds[1] ELSE None
    /\ UNCHANGED <<envVars, concVars, tmplVars>>
    /\ UNCHANGED <<store, active_version, lastCached, pc, version, nodes, edges,
                   db_nodes, db_edges, pending, log, failed, reads, repeat, calls>>

\* the arguments of the single calls: a version or None (omitted), one node
\* and one edge
OptVersions == Versions \cup {None}
CallNodes == {NodeDTO(1, [name |-> "a", pos_x |-> 0, pos_y |-> 0,
                          picture_path |-> "p", description |-> "d"])}
CallEdges == {EdgeDTO(1, [node1 |-> 1, node2 |-> 2, description |-> "d"])}

\* the database may hold an active version or none when the client starts
InitVersion ==
    /\ \E a \in {None, "v1"} :
         store = [versions |-> {"v1"}, active |-> a,
                  nodes |-> [v \in Versions |-> Empty],
                  edges |-> [v \in Versions |-> Empty]]
    /\ debug = FALSE
    /\ databases = {db_name}
    /\ ClientInit
    /\ NoSyncs

NextVersion ==
    \/ LoadActiveVersion
    \/ \E v \in Versions : SetActiveVersion(v)
    \/ \E v \in Versions : GraphByVersionCreate(v)
    \/ \E ver \in OptVersions : GraphByVersionDelete(ver)
    \/ \E ver \in OptVersions : GraphByVersionGet(ver)
    \/ \E n \in CallNodes, ver \in OptVersions : NodeCreate(n, ver)
    \/ \E n \in CallNodes, ver \in OptVersions : NodeUpdate(n, ver)
    \/ \E n \in CallNodes, ver \in OptVersions : NodeDelete(n, ver)
    \/ \E e \in CallEdges, ver \in OptVersions : EdgeCreate(e, ver)
    \/ \E e \in CallEdges, ver \in OptVersions : EdgeUpdate(e, ver)
    \/ \E e \in CallEdges, ver \in OptVersions : EdgeDelete(e, ver)

SpecVersion == InitVersion /\ [][NextVersion]_vars

----------------------------------------------------------------------------
(* update_graph on a database that holds two board versions with graphs    *)
(* whose edges all end at nodes of the same graph, called with such a      *)
(* graph.                                                                  *)

\* the endpoint pairs of the edges of a graph over the node ids ns
Endpoints(ns) == {p \in ns \X ns : p[1] <= p[2]}

\* the graphs over NodeIds and EdgeIds in which every edge ends at nodes of
\* the graph
ClosedGraphs ==
    UNION {{[ns |-> ns, es |-> es] :
               es \in UNION {[ids -> Endpoints(ns)] : ids \in SUBSET EdgeIds}} :
           ns \in SUBSET NodeIds}

SyncAttrs ==
    [name |-> "a", pos_x |-> 0, pos_y |-> 0, picture_path |-> "p", description |-> "d"]

\* the nodes and edges of graph g as the database holds them
StoredNodes(g) ==
    [k \in {StrId(i) : i \in g.ns} |->
        [name |-> "a", pos_x |-> 0, pos_y |-> 0, picture_path |-> "p",
         description |-> "d"]]
StoredEdges(g) ==
    [k \in {StrId(i) : i \in DOMAIN g.es} |->
        LET i == CHOOSE i \in DOMAIN g.es : StrId(i) = k
        IN  [node1 |-> StrId(g.es[i][1]), node2 |-> StrId(g.es[i][2]),
             description |-> "d"]]

\* the ids of S in ascending order
RECURSIVE Ascending(_)
Ascending(S) ==
    IF S = {} THEN <<>>
    ELSE LET m == CHOOSE m \in S : \A x \in S : m <= x
         IN  <<m>> \o Ascending(S \ {m})

\* graph g as the nodes and edges arguments of update_graph
DesiredNodes(g) ==
    LET ids == Ascending(g.ns)
    IN  [i \in 1..Len(ids) |-> NodeDTO(ids[i], SyncAttrs)]
DesiredEdges(g) ==
    LET ids == Ascending(DOMAIN g.es)
    IN  [i \in 1..Len(ids) |->
           EdgeDTO(ids[i], [node1 |-> g.es[ids[i]][1], node2 |-> g.es[ids[i]][2],
                            description |-> "d"])]

\* the other version's graph: one node with a loop
OtherGraph == [ns |-> {1}, es |-> [i \in {1} |-> <<1, 1>>]]

\* both versions exist and v1 holds any such graph
InitSync ==
    /\ \E g \in ClosedGraphs :
          store = [versions |-> Versions, active |-> "v2",
                   nodes |-> [v \in Versions |->
                                IF v = "v1" THEN StoredNodes(g) ELSE StoredNodes(OtherGraph)],
                   edges |-> [v \in Versions |->
                                IF v = "v1" THEN StoredEdges(g) ELSE StoredEdges(OtherGraph)]]
    /\ debug = FALSE
    /\ databases = {db_name}
    /\ ClientInit
    /\ NoSyncs

\* set_active_version on the new client, then one update_graph call on
\* either version
NextSync ==
    \/ \E v \in Versions : calls = 0 /\ pc = "idle" /\ lastCall = NoCall /\ SetActiveVersion(v)
    \/ \E v \in Versions, g \in ClosedGraphs :
          calls = 0 /\ UpdateGraph(v, DesiredNodes(g), DesiredEdges(g))
    \/ \E v \in Versions, g \in ClosedGraphs :
          calls = 0 /\ UpdateGraphReadFails(v, DesiredNodes(g), DesiredEdges(g))
    \/ IssueCall
    \/ \E e \in WriteErrors : IssueCallFails(e)

SpecSync == InitSync /\ [][NextSync]_vars

----------------------------------------------------------------------------
(* The client's methods at the level of the engine calls they make.  Each  *)
(* engine call either returns or raises; a fault scenario f names the call *)
(* of a transaction that raises (f.at), whether the template driver        *)
(* renders the query (f.build) and whether tx.close() returns (f.close).   *)
(* What a read answers is the engine's choice: any list of documents.      *)

\* one call on the driver: its name, the kind of the transaction it belongs
\* to (or "none"), the operation of its query or the database it names, and
\* whether it returned (ok) or raised
EngineCall(c, tx, q, ok) == [call |-> c, tx |-> tx, q |-> q, ok |-> ok]

Fault(build, at, close) == [build |-> build, at |-> at, close |-> close]

NoFault == Fault(TRUE, "none", TRUE)

\* a transaction's scenarios: a call before the close raises or none does,
\* and tx.close() returns or raises (it is not reached when the open failed)
TxFaults ==
    {Fault(TRUE, "open", TRUE)} \cup
    {Fault(TRUE, at, close) : at \in {"none", "query", "finish"}, close \in BOOLEAN}

\* a method's scenarios: the template driver fails to render the query, or
\* it renders it and the transaction runs
Faults == {Fault(FALSE, "none", TRUE)} \cup TxFaults

\* documents get-active-version may answer: with a version in
\* active_version, with a null active_version, and without that field
ActiveVersionDocs ==
    {[active_version |-> "v1"], [active_version |-> None], [name |-> "x"]}

\* a document the other reads may answer
ResultDocs == {[name |-> "x"]}

\* a read's answer: a list of documents
ReadResults(D) == SeqsUpTo(D, MaxDocs)

\* an exception leaves the block it is raised in; the one of tx.close() is
\* swallowed, so the block succeeds when every other call returned
Succeeded(cs) == \A i \in 1..Len(cs) : cs[i].call = "close" \/ cs[i].ok

\* faulty variant: without the finally clause tx.close() runs only after a body
\* that did not raise
transaction_no_finally(tx_type, q, f, body) ==
    IF f.at = "open" THEN <<EngineCall("transaction", tx_type, q, FALSE)>>
    ELSE <<EngineCall("transaction", tx_type, q, TRUE)>> \o body
         \o (IF Succeeded(body) THEN <<EngineCall("close", tx_type, q, f.close)>>
             ELSE <<>>)

\* with self.transaction(tx_type) as tx: body -- driver.transaction, the
\* body's calls when it opened, then tx.close() in the finally clause
transaction(tx_type, q, f, body) ==
    IF f.at = "open" THEN <<EngineCall("transaction", tx_type, q, FALSE)>>
    ELSE <<EngineCall("transaction", tx_type, q, TRUE)>> \o body
         \o <<EngineCall("close", tx_type, q, f.close)>>

\* faulty variant: the commit is invoked whether or not the query resolved
query_commit_always(tx_type, q, f) ==
    transaction(tx_type, q, f,
        <<EngineCall("query", tx_type, q, f.at # "query"),
          EngineCall("commit", tx_type, q, f.at # "finish")>>)

\* the block of _execute_write and of the schema transaction:
\* tx.query(query).resolve(), tx.commit()
query_commit(tx_type, q, f) ==
    transaction(tx_type, q, f,
        IF f.at = "query" THEN <<EngineCall("query", tx_type, q, FALSE)>>
        ELSE <<EngineCall("query", tx_type, q, TRUE),
               EngineCall("commit", tx_type, q, f.at # "finish")>>)

\* _execute_write: the query and the commit in a WRITE transaction
_execute_write(q, f) == query_commit("WRITE", q, f)

\* faulty variant: the documents are materialised in a second transaction
_execute_read_reopened(q, f) ==
    transaction("READ", q, f,
        <<EngineCall("query", "READ", q, f.at # "query")>>) \o
    (IF f.at \in {"open", "query"} THEN <<>>
     ELSE transaction("READ", q, f,
            <<EngineCall("query", "READ", q, TRUE),
              EngineCall("as_concept_documents", "READ", q, f.at # "finish")>>))

\* _execute_read: tx.query(query).resolve(), then the documents are
\* materialised inside the READ transaction
_execute_read(q, f) ==
    transaction("READ", q, f,
        IF f.at = "query" THEN <<EngineCall("query", "READ", q, FALSE)>>
        ELSE <<EngineCall("query", "READ", q, TRUE),
               EngineCall("as_concept_documents", "READ", q, f.at # "finish")>>)

\* a client method ends: what it raised or returned and the calls it made
MethodEnds(op, ver, resolved, out, trace, ds, ret) ==
    /\ error' = IF out = "ok" THEN "none" ELSE out
    /\ lastCall' = Finished(op, ver, resolved, out)
    /\ engine' = trace
    /\ lastDocs' = ds
    /\ returned' = ret
    /\ UNCHANGED <<debug, syncVars, calls, concVars, tmplVars>>

\* faulty variant: the last document that has the field is taken
first_active_version_last(ds) ==
    IF \E i \in 1..Len(ds) : "active_version" \in DOMAIN ds[i]
    THEN ds[CHOOSE i \in 1..Len(ds) :
              /\ "active_version" \in DOMAIN ds[i]
              /\ \A j \in (i + 1)..Len(ds) : "active_version" \notin DOMAIN ds[j]].active_version
    ELSE None

\* the value of the first document that has the field active_version
first_active_version(ds) ==
    IF \E i \in 1..Len(ds) : "active_version" \in DOMAIN ds[i]
    THEN ds[CHOOSE i \in 1..Len(ds) :
              /\ "active_version" \in DOMAIN ds[i]
              /\ \A j \in 1..(i - 1) : "active_version" \notin DOMAIN ds[j]].active_version
    ELSE None

\* faulty variant: a load that fails leaves the cache empty
load_active_version_reset(f, ds) ==
    LET trace == IF f.build THEN _execute_read("get-active-version", f) ELSE <<>>
        read == f.build /\ Succeeded(trace)
        value == IF read THEN first_active_version(ds) ELSE None
        out == IF ~f.build THEN "TemplateProcessingError"
               ELSE IF ~read THEN "QueryExecutionError"
               ELSE IF value = None THEN "ActiveVersionError"
               ELSE "ok"
    IN  /\ active_version' = IF out = "ok" THEN value ELSE None
        /\ lastCached' = IF out = "ok" THEN value ELSE lastCached
        /\ MethodEnds("get-active-version", None, None, out, trace,
                      IF read THEN ds ELSE <<>>, None)
        /\ UNCHANGED <<store, databases>>

\* load_active_version: render get-active-version, read, take the first
\* active_version, raise ActiveVersionError when it is None, else cache it
load_active_version(f, ds) ==
    LET trace == IF f.build THEN _execute_read("get-active-version", f) ELSE <<>>
        read == f.build /\ Succeeded(trace)
        value == IF read THEN first_active_version(ds) ELSE None
        out == IF ~f.build THEN "TemplateProcessingError"
               ELSE IF ~read THEN "QueryExecutionError"
               ELSE IF value = None THEN "ActiveVersionError"
               ELSE "ok"
    IN  /\ active_version' = IF out = "ok" THEN value ELSE active_version
        /\ lastCached' = IF out = "ok" THEN value ELSE lastCached
        /\ MethodEnds("get-active-version", None, None, out, trace,
                      IF read THEN ds ELSE <<>>, None)
        /\ UNCHANGED <<store, databases>>

\* get_versions: render get-versions, read; with no document the message of
\* the exception names resolved_version, which this method never binds
get_versions(f, ds) ==
    LET trace == IF f.build THEN _execute_read("get-versions", f) ELSE <<>>
        read == f.build /\ Succeeded(trace)
        out == IF ~f.build THEN "TemplateProcessingError"
               ELSE IF ~read THEN "QueryExecutionError"
               ELSE IF Len(ds) = 0 THEN "NameError"
               ELSE IF Len(ds) > 1 THEN "QueryExecutionError"
               ELSE "ok"
    IN  /\ MethodEnds("get-versions", None, None, out, trace,
                      IF read THEN ds ELSE <<>>,
                      IF out = "ok" THEN ds[1] ELSE None)
        /\ UNCHANGED <<store, databases, active_version, lastCached>>

\* faulty variant: the first of several documents is returned
graph_by_version_get_first(ver, f, ds) ==
    LET r == _resolve_version(ver, active_version)
        trace == IF r.ok /\ f.build THEN _execute_read("graph-by-version-get", f)
                 ELSE <<>>
        read == r.ok /\ f.build /\ Succeeded(trace)
        out == IF ~r.ok THEN "ActiveVersionError"
               ELSE IF ~f.build THEN "TemplateProcessingError"
               ELSE IF ~read THEN "QueryExecutionError"
               ELSE IF Len(ds) = 0 THEN "QueryExecutionError"
               ELSE "ok"
    IN  /\ MethodEnds("graph-by-version-get", ver, r.version, out, trace,
                      IF read THEN ds ELSE <<>>,
                      IF out = "ok" THEN ds[1] ELSE None)
        /\ UNCHANGED <<store, databases, active_version, lastCached>>

\* graph_by_version_get: resolve the version, render, read, and require
\* exactly one document
graph_by_version_get(ver, f, ds) ==
    LET r == _resolve_version(ver, active_version)
        trace == IF r.ok /\ f.build THEN _execute_read("graph-by-version-get", f)
                 ELSE <<>>
        read == r.ok /\ f.build /\ Succeeded(trace)
        out == IF ~r.ok THEN "ActiveVersionError"
               ELSE IF ~f.build THEN "TemplateProcessingError"
               ELSE IF ~read THEN "QueryExecutionError"
               ELSE IF Len(ds) = 0 THEN "QueryExecutionError"
               ELSE IF Len(ds) > 1 THEN "QueryExecutionError"
               ELSE "ok"
    IN  /\ MethodEnds("graph-by-version-get", ver, r.version, out, trace,
                      IF read THEN ds ELSE <<>>,
                      IF out = "ok" THEN ds[1] ELSE None)
        /\ UNCHANGED <<store, databases, active_version, lastCached>>

\* the effect of a committed investigation-create or investigation-delete:
\* the deletion takes every board version and the active version with it
ApplyInvestigation(st, op) ==
    IF op = "investigation-delete"
    THEN [versions |-> {}, active |-> None,
          nodes |-> [v \in Versions |-> Empty],
          edges |-> [v \in Versions |-> Empty]]
    ELSE st

\* faulty variant: the query is built before the version is resolved
versioned_write_build_first(c, ver, f) ==
    LET r == _resolve_version(ver, active_version)
        trace == IF r.ok /\ f.build THEN _execute_write(c.op, f) ELSE <<>>
        out == IF ~f.build THEN "TemplateProcessingError"
               ELSE IF ~r.ok THEN "ActiveVersionError"
               ELSE IF ~Succeeded(trace) THEN "QueryExecutionError"
               ELSE "ok"
    IN  /\ store' = IF out = "ok"
                    THEN ApplyWrite(store, _build_query([c EXCEPT !.version = r.version]))
                    ELSE store
        /\ MethodEnds(c.op, ver, r.version, out, trace, <<>>, None)
        /\ UNCHANGED <<databases, active_version, lastCached>>

\* a write method with an optional version (node_create, node_update,
\* node_delete, edge_create, edge_update, edge_delete,
\* graph_by_version_delete): _resolve_version, _build_query, _execute_write;
\* c is the call, its version still to be resolved
versioned_write(c, ver, f) ==
    LET r == _resolve_version(ver, active_version)
        trace == IF r.ok /\ f.build THEN _execute_write(c.op, f) ELSE <<>>
        out == IF ~r.ok THEN "ActiveVersionError"
               ELSE IF ~f.build THEN "TemplateProcessingError"
               ELSE IF ~Succeeded(trace) THEN "QueryExecutionError"
               ELSE "ok"
    IN  /\ store' = IF out = "ok"
                    THEN ApplyWrite(store, _build_query([c EXCEPT !.version = r.version]))
                    ELSE store
        /\ MethodEnds(c.op, ver, r.version, out, trace, <<>>, None)
        /\ UNCHANGED <<databases, active_version, lastCached>>

\* graph_by_version_create: the version is required; _build_query,
\* _execute_write
graph_by_version_create(v, f) ==
    LET trace == IF f.build THEN _execute_write("graph-by-version-create", f) ELSE <<>>
        out == IF ~f.build THEN "TemplateProcessingError"
               ELSE IF ~Succeeded(trace) THEN "QueryExecutionError"
               ELSE "ok"
    IN  /\ store' = IF out = "ok"
                    THEN ApplyWrite(store,
                           _build_query([op |-> "graph-by-version-create", version |-> v]))
                    ELSE store
        /\ MethodEnds("graph-by-version-create", v, v, out, trace, <<>>, None)
        /\ UNCHANGED <<databases, active_version, lastCached>>

\* set_active_version: _build_query, _execute_write, then the cache is set
set_active_version(v, f) ==
    LET trace == IF f.build THEN _execute_write("set-active-version", f) ELSE <<>>
        out == IF ~f.build THEN "TemplateProcessingError"
               ELSE IF ~Succeeded(trace) THEN "QueryExecutionError"
               ELSE "ok"
    IN  /\ store' = IF out = "ok"
                    THEN ApplyWrite(store,
                           _build_query([op |-> "set-active-version", version |-> v]))
                    ELSE store
        /\ active_version' = IF out = "ok" THEN v ELSE active_version
        /\ lastCached' = IF out = "ok" THEN v ELSE lastCached
        /\ MethodEnds("set-active-version", v, v, out, trace, <<>>, None)
        /\ UNCHANGED databases

\* a database call that raises: none, databases.contains, or the
\* databases.create / databases.delete after it
DbFaults == {"none", "contains", "change"}

\* the db_name argument of create_database and drop_database
DbNames == {None, "scratch"}

\* faulty variant: the gate lets every call through
_ensure_debug_allowed_open == TRUE

\* _ensure_debug_allowed: TRUE when it returns, FALSE when it raises
\* OperationIsNotAllowed (os.getenv("DEBUG_DB") is None)
_ensure_debug_allowed == debug

\* the databases.contains(name) call and, when it returns wanted, the
\* databases.create or databases.delete call that follows it
contains_then(name, wanted, change, df) ==
    <<EngineCall("databases.contains", "none", name, df # "contains")>> \o
    (IF df # "contains" /\ (name \in databases) = wanted
     THEN <<EngineCall(change, "none", name, df # "change")>>
     ELSE <<>>)

\* the databases after the calls of trace
DatabasesAfter(trace) ==
    LET last == trace[Len(trace)]
    IN  IF trace # <<>> /\ last.ok /\ last.call = "databases.create"
        THEN databases \cup {last.q}
        ELSE IF trace # <<>> /\ last.ok /\ last.call = "databases.delete"
        THEN databases \ {last.q}
        ELSE databases

\* ensure_database_exists: create self.db_name unless the engine has it
ensure_database_exists(df) ==
    LET trace == contains_then(db_name, FALSE, "databases.create", df)
        out == IF Succeeded(trace) THEN "ok" ELSE "TypeDBClientError"
    IN  /\ databases' = DatabasesAfter(trace)
        /\ MethodEnds("ensure-database-exists", None, None, out, trace, <<>>, None)
        /\ UNCHANGED <<store, active_version, lastCached>>

\* create_database: the gate, then create db_name or self.db_name unless
\* the engine has it
create_database(name, df) ==
    LET n == IF name = None THEN db_name ELSE name
        trace == IF _ensure_debug_allowed
                 THEN contains_then(n, FALSE, "databases.create", df) ELSE <<>>
        out == IF ~_ensure_debug_allowed THEN "OperationIsNotAllowed"
               ELSE IF Succeeded(trace) THEN "ok" ELSE "TypeDBClientError"
    IN  /\ databases' = DatabasesAfter(trace)
        /\ MethodEnds("create-database", None, None, out, trace, <<>>, None)
        /\ UNCHANGED <<store, active_version, lastCached>>

\* drop_database: the gate, then delete db_name or self.db_name when the
\* engine has it
drop_database(name, df) ==
    LET n == IF name = None THEN db_name ELSE name
        trace == IF _ensure_debug_allowed
                 THEN contains_then(n, TRUE, "databases.delete", df) ELSE <<>>
        out == IF ~_ensure_debug_allowed THEN "OperationIsNotAllowed"
               ELSE IF Succeeded(trace) THEN "ok" ELSE "TypeDBClientError"
    IN  /\ databases' = DatabasesAfter(trace)
        /\ MethodEnds("drop-database", None, None, out, trace, <<>>, None)
        /\ UNCHANGED <<store, active_version, lastCached>>

\* faulty variant: the catalog operation is run whatever the schema transaction did
investigation_create_regardless(file, fs, f) ==
    LET schema == IF _ensure_debug_allowed /\ file
                  THEN query_commit("SCHEMA", "schema", fs) ELSE <<>>
        write == IF _ensure_debug_allowed /\ file /\ f.build
                 THEN _execute_write("investigation-create", f) ELSE <<>>
        out == IF ~_ensure_debug_allowed THEN "OperationIsNotAllowed"
               ELSE IF ~file THEN "TypeDBClientError"
               ELSE IF ~f.build THEN "TemplateProcessingError"
               ELSE IF ~Succeeded(write) \/ ~Succeeded(schema) THEN "QueryExecutionError"
               ELSE "ok"
    IN  /\ store' = IF Succeeded(write) /\ write # <<>>
                    THEN ApplyInvestigation(store, "investigation-create")
                    ELSE store
        /\ MethodEnds("investigation-create", None, None, out, schema \o write,
                      <<>>, None)
        /\ UNCHANGED <<databases, active_version, lastCached>>

\* investigation_create: the gate, the schema file is read (file: it could
\* be read), the schema is applied in a SCHEMA transaction, then
\* investigation-create is rendered and executed as a write
investigation_create(file, fs, f) ==
    LET schema == IF _ensure_debug_allowed /\ file
                  THEN query_commit("SCHEMA", "schema", fs) ELSE <<>>
        applied == _ensure_debug_allowed /\ file /\ Succeeded(schema)
        write == IF applied /\ f.build
                 THEN _execute_write("investigation-create", f) ELSE <<>>
        out == IF ~_ensure_debug_allowed THEN "OperationIsNotAllowed"
               ELSE IF ~file THEN "TypeDBClientError"
               ELSE IF ~applied THEN "QueryExecutionError"
               ELSE IF ~f.build THEN "TemplateProcessingError"
               ELSE IF ~Succeeded(write) THEN "QueryExecutionError"
               ELSE "ok"
    IN  /\ store' = IF out = "ok"
                    THEN ApplyInvestigation(store, "investigation-create")
                    ELSE store
        /\ MethodEnds("investigation-create", None, None, out, schema \o write,
                      <<>>, None)
        /\ UNCHANGED <<databases, active_version, lastCached>>

\* faulty variant: the engine's exception leaves the method as it is
investigation_delete_untranslated(f) ==
    LET trace == IF _ensure_debug_allowed /\ f.build
                 THEN _execute_write("investigation-delete", f) ELSE <<>>
        out == IF ~_ensure_debug_allowed THEN "OperationIsNotAllowed"
               ELSE IF ~f.build THEN "TemplateProcessingError"
               ELSE IF ~Succeeded(trace) THEN "TypeDBDriverException"
               ELSE "ok"
    IN  /\ store' = IF out = "ok"
                    THEN ApplyInvestigation(store, "investigation-delete")
                    ELSE store
        /\ MethodEnds("investigation-delete", None, None, out, trace, <<>>, None)
        /\ UNCHANGED <<databases, active_version, lastCached>>

\* investigation_delete: the gate, then investigation-delete as a write
investigation_delete(f) ==
    LET trace == IF _ensure_debug_allowed /\ f.build
                 THEN _execute_write("investigation-delete", f) ELSE <<>>
        out == IF ~_ensure_debug_allowed THEN "OperationIsNotAllowed"
               ELSE IF ~f.build THEN "TemplateProcessingError"
               ELSE IF ~Succeeded(trace) THEN "QueryExecutionError"
               ELSE "ok"
    IN  /\ store' = IF out = "ok"
                    THEN ApplyInvestigation(store, "investigation-delete")
                    ELSE store
        /\ MethodEnds("investigation-delete", None, None, out, trace, <<>>, None)
        /\ UNCHANGED <<databases, active_version, lastCached>>

\* the calls of the write methods with an optional version, version omitted
WriteCalls ==
    {node_create("1", "a", 0, 0, "p", "d", None),
     [op |-> "graph-by-version-delete", version |-> None]}

\* the environment may have DEBUG_DB set or not, and the engine may have the
\* client's database or not
InitEngine ==
    /\ store = [versions |-> {"v1"}, active |-> "v1",
                nodes |-> [v \in Versions |-> Empty],
                edges |-> [v \in Versions |-> Empty]]
    /\ debug \in BOOLEAN
    /\ databases \in {{}, {db_name}}
    /\ ClientInit
    /\ NoSyncs

NextEngine ==
    \/ \E df \in DbFaults : ensure_database_exists(df)
    \/ \E n \in DbNames, df \in DbFaults : create_database(n, df)
    \/ \E n \in DbNames, df \in DbFaults : drop_database(n, df)
    \/ \E f \in Faults, ds \in ReadResults(ActiveVersionDocs) : load_active_version(f, ds)
    \/ \E f \in Faults, ds \in ReadResults(ResultDocs) : get_versions(f, ds)
    \/ \E ver \in {None, "v1"}, f \in Faults, ds \in ReadResults(ResultDocs) :
         graph_by_version_get(ver, f, ds)
    \/ \E c \in WriteCalls, ver \in {None, "v1"}, f \in Faults : versioned_write(c, ver, f)
    \/ \E f \in Faults : graph_by_version_create("v1", f)
    \/ \E f \in Faults : set_active_version("v1", f)
    \/ \E file \in BOOLEAN, fs \in TxFaults :
         \E f \in (IF file /\ fs.at = "none" THEN Faults ELSE {NoFault}) :
            investigation_create(file, fs, f)
    \/ \E f \in Faults : investigation_delete(f)

SpecEngine == InitEngine /\ [][NextEngine]_vars

\* the write methods with an optional version, one call of each, version
\* omitted
OptionalVersionCalls ==
    {node_create("1", "a", 0, 0, "p", "d", None),
     node_update("1", "b", 1, 0, "p", "d", None),
     node_delete("1", None),
     edge_create("1", "1", "1", "d", None),
     edge_update("1", "e", None),
     edge_delete("1", None),
     [op |-> "graph-by-version-delete", version |-> None]}

\* the eight methods with an optional version on a client whose cache is
\* empty until set_active_version fills it
NextOptionalVersion ==
    \/ \E f \in Faults : set_active_version("v1", f)
    \/ \E ver \in {None, "v1"}, f \in Faults, ds \in ReadResults(ResultDocs) :
         graph_by_version_get(ver, f, ds)
    \/ \E c \in OptionalVersionCalls, ver \in {None, "v1"}, f \in Faults :
         versioned_write(c, ver, f)

SpecOptionalVersion == Init /\ [][NextOptionalVersion]_vars

----------------------------------------------------------------------------
(* Two callers run update_graph on the same version at the same time, each *)
(* on its own client and connection.  A step is one transaction: the read  *)
(* of graph_by_version_get, or one write call of the caller's sequence.    *)

Callers == {1, 2}

ConcVersion == "v1"

ConcNodes ==
    {NodeDTO(1, [name |-> "a", pos_x |-> 0, pos_y |-> 0,
                 picture_path |-> "p", description |-> "d"]),
     NodeDTO(1, [name |-> "b", pos_x |-> 1, pos_y |-> 1,
                 picture_path |-> "p", description |-> "d"]),
     NodeDTO(2, [name |-> "a", pos_x |-> 0, pos_y |-> 0,
                 picture_path |-> "p", description |-> "d"])}

ConcEdges == {EdgeDTO(1, [node1 |-> 1, node2 |-> 2, description |-> "d"])}

\* the frame of a caller that has not called update_graph
IdleFrame ==
    [pc |-> "idle", version |-> None, nodes |-> <<>>, edges |-> <<>>,
     db_nodes |-> <<>>, db_edges |-> <<>>, pending |-> <<>>, log |-> <<>>]

soloVars == <<active_version, syncVars, error, calls, lastCall, lastCached,
              envVars, readVars, tmplVars>>

\* caller p enters update_graph and graph_by_version_get returns the graph
\* as persisted at this moment
ConcUpdateGraph(p, v, ns, es) ==
    /\ syncs[p].pc = "idle"
    /\ \E ds \in GraphDocs(store, v) :
         /\ Len(ds) = 1
         /\ LET plan == update_graph_calls(ds[1].nodes, ds[1].edges, ns, es, v)
            IN  syncs' = [syncs EXCEPT ![p] =
                   [pc |-> IF plan = <<>> THEN "done" ELSE "run",
                    version |-> v, nodes |-> ns, edges |-> es,
                    db_nodes |-> ds[1].nodes, db_edges |-> ds[1].edges,
                    pending |-> plan, log |-> <<>>]]
    /\ UNCHANGED <<store, commits, soloVars>>

\* faulty variant: a caller's write waits until no other caller is in update_graph
ConcIssueCall_exclusive(p) ==
    /\ syncs[p].pc = "run"
    /\ \A o \in Callers \ {p} : syncs[o].pc # "run"
    /\ store' = ApplyWrite(store, _build_query(Head(syncs[p].pending)))
    /\ commits' = Append(commits, [caller |-> p, call |-> Head(syncs[p].pending)])
    /\ syncs' = [syncs EXCEPT ![p].log = Append(@, Head(syncs[p].pending)),
                              ![p].pending = Tail(@),
                              ![p].pc = IF Tail(syncs[p].pending) = <<>>
                                        THEN "done" ELSE "run"]
    /\ UNCHANGED soloVars

\* the next write call of caller p's sequence commits
ConcIssueCall(p) ==
    /\ syncs[p].pc = "run"
    /\ store' = ApplyWrite(store, _build_query(Head(syncs[p].pending)))
    /\ commits' = Append(commits, [caller |-> p, call |-> Head(syncs[p].pending)])
    /\ syncs' = [syncs EXCEPT ![p].log = Append(@, Head(syncs[p].pending)),
                              ![p].pending = Tail(@),
                              ![p].pc = IF Tail(syncs[p].pending) = <<>>
                                        THEN "done" ELSE "run"]
    /\ UNCHANGED soloVars

\* the next write call of caller p raises and ends its update_graph
ConcIssueCallFails(p) ==
    /\ syncs[p].pc = "run"
    /\ syncs' = [syncs EXCEPT ![p].pc = "failed"]
    /\ UNCHANGED <<store, commits, soloVars>>

\* the version holds nothing, or the node 1 of an earlier update_graph
InitConcurrent ==
    /\ \E f \in {Empty, Put(Empty, "1", [name |-> "a", pos_x |-> 0, pos_y |-> 0,
                                         picture_path |-> "p", description |-> "d"])} :
         store = [versions |-> {ConcVersion}, active |-> ConcVersion,
                  nodes |-> [v \in Versions |-> IF v = ConcVersion THEN f ELSE Empty],
                  edges |-> [v \in Versions |-> Empty]]
    /\ debug = FALSE
    /\ databases = {db_name}
    /\ ClientInit
    /\ syncs = [p \in Callers |-> IdleFrame]
    /\ commits = <<>>

NextConcurrent ==
    \/ \E p \in Callers, k \in 0..MaxConcDesired :
         \E ns \in [1..k -> ConcNodes], es \in SeqsUpTo(ConcEdges, MaxConcDesired - k) :
            ConcUpdateGraph(p, ConcVersion, ns, es)
    \/ \E p \in Callers : ConcIssueCall(p)
    \/ \E p \in Callers : ConcIssueCallFails(p)

SpecConcurrent == InitConcurrent /\ [][NextConcurrent]_vars

----------------------------------------------------------------------------
(* The template driver (typeql_template_driver.py).  A text is a sequence   *)
(* of atoms: plain text, a replacement field {name}, or the doubled braces *)
(* {{name}} that str.format turns into the literal text {name}.            *)

Text(t) == [k |-> "text", s |-> t]
Field(n) == [k |-> "field", s |-> n]
Escaped(n) == [k |-> "escaped", s |-> n]
Braced(n) == [k |-> "braced", s |-> n]

\* the parameter names of the model, in the order sorted() gives them
NameOrder == <<"x", "y", "z">>

ParamNames == Range(NameOrder)

\* faulty variant: the names come in descending order
sorted_reversed(S) ==
    LET up == SelectSeq(NameOrder, LAMBDA n : n \in S)
    IN  [i \in 1..Len(up) |-> up[Len(up) + 1 - i]]

\* sorted(S) for a set S of parameter names
sorted(S) == SelectSeq(NameOrder, LAMBDA n : n \in S)

\* os.path.isfile and open() on the files of the schema-version directory
FileStatus(file) ==
    IF file \in {"a.tql", "b.tql", "c.tql"} THEN "file"
    ELSE IF file = "locked.tql" THEN "unreadable"
    ELSE "absent"

\* the content of the template files
FileTemplate(file) ==
    CASE file = "a.tql" -> <<Text("match "), Field("x"), Text(" has "), Field("y")>>
      [] file = "b.tql" -> <<Text("fetch "), Escaped("x"), Text(" of "), Field("x")>>
      [] file = "c.tql" -> <<Text("match "), Field("z")>>

\* an entry of the specification array; None stands for a field that is
\* missing, empty or of the wrong type, object = FALSE for a non-object entry
Entry(operation, file, params) ==
    [object |-> TRUE, operation |-> operation, file |-> file, params |-> params]

EntryInputs ==
    {Entry("a", "a.tql", <<"x", "y">>),
     Entry("a", "gone.tql", <<"x">>),
     Entry("b", "b.tql", <<"x", "x">>),
     Entry("b", "locked.tql", <<>>),
     Entry("c", "c.tql", <<>>),
     Entry("c", None, <<>>),
     [object |-> FALSE, operation |-> None, file |-> None, params |-> None]}

Raised(out, operation, file) == [out |-> out, operation |-> operation, file |-> file]

\* faulty variant: the template file is looked up before the name is checked
_process_spec_entry_file_first(ops, entry) ==
    IF ~entry.object \/ entry.operation = None
    THEN [ops |-> ops, end |-> Raised("SpecificationError", None, None)]
    ELSE IF entry.file = None \/ entry.params = None
    THEN [ops |-> ops, end |-> Raised("SpecificationError", entry.operation, None)]
    ELSE IF FileStatus(entry.file) # "file"
    THEN [ops |-> ops, end |-> Raised("TemplateFileError", entry.operation, entry.file)]
    ELSE IF entry.operation \in DOMAIN ops
    THEN [ops |-> ops, end |-> Raised("SpecificationError", entry.operation, None)]
    ELSE [ops |-> Put(ops, entry.operation,
                       [file |-> entry.file, params |-> Range(entry.params),
                        template |-> FileTemplate(entry.file)]),
          end |-> Raised("ok", None, None)]

\* _process_spec_entry: the shape of the entry, the uniqueness of its
\* operation name, then its template file; ops is self._operations
_process_spec_entry(ops, entry) ==
    IF ~entry.object \/ entry.operation = None
    THEN [ops |-> ops, end |-> Raised("SpecificationError", None, None)]
    ELSE IF entry.file = None \/ entry.params = None
    THEN [ops |-> ops, end |-> Raised("SpecificationError", entry.operation, None)]
    ELSE IF entry.operation \in DOMAIN ops
    THEN [ops |-> ops, end |-> Raised("SpecificationError", entry.operation, None)]
    ELSE IF FileStatus(entry.file) # "file"
    THEN [ops |-> ops, end |-> Raised("TemplateFileError", entry.operation, entry.file)]
    ELSE [ops |-> Put(ops, entry.operation,
                       [file |-> entry.file, params |-> Range(entry.params),
                        template |-> FileTemplate(entry.file)]),
          end |-> Raised("ok", None, None)]

\* faulty variant: the loop goes on after an entry raised and reports the
\* last error
RECURSIVE ProcessEntries_all(_, _)
ProcessEntries_all(ops, entries) ==
    IF entries = <<>> THEN [ops |-> ops, end |-> Raised("ok", None, None)]
    ELSE LET r == _process_spec_entry(ops, Head(entries))
             rest == ProcessEntries_all(r.ops, Tail(entries))
         IN  IF rest.end.out # "ok" THEN rest ELSE [ops |-> rest.ops, end |-> r.end]

\* for entry in spec_data: self._process_spec_entry(entry), left at the
\* first entry that raises
RECURSIVE ProcessEntries(_, _)
ProcessEntries(ops, entries) ==
    IF entries = <<>> THEN [ops |-> ops, end |-> Raised("ok", None, None)]
    ELSE LET r == _process_spec_entry(ops, Head(entries))
         IN  IF r.end.out # "ok" THEN r ELSE ProcessEntries(r.ops, Tail(entries))

\* the client's and the engine's state, which the driver never touches
clientVars == <<store, active_version, syncVars, error, calls, lastCall,
                lastCached, envVars, readVars, concVars>>

\* TypeQLTemplateDriver.__init__ on a specification array sd; when it raises
\* there is no driver and no catalog
TypeQLTemplateDriver(sd) ==
    /\ loaded.out = "no"
    /\ LET r == ProcessEntries(Empty, sd)
       IN  /\ loaded' = r.end
           /\ _operations' = IF r.end.out = "ok" THEN r.ops ELSE Empty
    /\ spec_data' = sd
    /\ UNCHANGED <<answer, held>>
    /\ UNCHANGED clientVars

\* the params argument of get_operation: omitted, a dict, or an object that
\* is no dict (a list) and is empty (falsy) or not
NoParams == [kind |-> "None", truthy |-> FALSE, map |-> Empty]
Dict(m) == [kind |-> "dict", truthy |-> DOMAIN m # {}, map |-> m]
NonMapping(t) == [kind |-> "list", truthy |-> t, map |-> Empty]

ParamMaps == {[n \in S |-> "P"] : S \in SUBSET ParamNames}
OverrideMaps == {[n \in S |-> IF n = "x" THEN None ELSE "K"] : S \in SUBSET {"x", "z"}}
ParamArgs == {NoParams, NonMapping(FALSE), NonMapping(TRUE)}
                 \cup {Dict(m) : m \in ParamMaps}
OperationInputs == {"a", "b", "c", "nope"}

\* dict.update: the entries of m, overridden and extended by those of u
update(m, u) ==
    [n \in DOMAIN m \cup DOMAIN u |-> IF n \in DOMAIN u THEN u[n] ELSE m[n]]

\* str.format(**merged) on one atom of a template
FormatAtom(a, merged) ==
    CASE a.k = "field" -> Text(Format(merged[a.s]))
      [] a.k = "escaped" -> Braced(a.s)
      [] OTHER -> a

\* the replacement fields of a template that merged has no value for
Unfilled(template, merged) ==
    {template[i].s : i \in {j \in DOMAIN template : template[j].k = "field"}}
        \ DOMAIN merged

Answer(call, operation, params, overrides, out, why, names, value) ==
    [call |-> call, operation |-> operation, params |-> params,
     overrides |-> overrides, out |-> out, why |-> why, names |-> names,
     value |-> value]

\* what the caller holds after a call: the params object it passed in, or
\* the collection it was handed; shared says the driver still refers to it
Held(kind, operation, names, shared) ==
    [kind |-> kind, operation |-> operation, names |-> names, shared |-> shared]

\* has_operation
has_operation(operation) ==
    /\ loaded.out = "ok"
    /\ answer' = Answer("has_operation", operation, NoParams, Empty, "ok", "none",
                        <<>>, <<Text(IF operation \in DOMAIN _operations
                                     THEN "True" ELSE "False")>>)
    /\ held' = [kind |-> "none"]
    /\ UNCHANGED <<spec_data, _operations, loaded>>
    /\ UNCHANGED clientVars

\* faulty variant: the catalog's own set is handed out
required_params_shared(operation) ==
    /\ loaded.out = "ok"
    /\ IF operation \notin DOMAIN _operations
       THEN /\ answer' = Answer("required_params", operation, NoParams, Empty,
                                "OperationError", "unknown", <<>>, <<>>)
            /\ held' = [kind |-> "none"]
       ELSE /\ answer' = Answer("required_params", operation, NoParams, Empty,
                                "ok", "none",
                                sorted(_operations[operation].params), <<>>)
            /\ held' = Held("set", operation, _operations[operation].params, TRUE)
    /\ UNCHANGED <<spec_data, _operations, loaded>>
    /\ UNCHANGED clientVars

\* required_params: a new set(op["params"])
required_params(operation) ==
    /\ loaded.out = "ok"
    /\ IF operation \notin DOMAIN _operations
       THEN /\ answer' = Answer("required_params", operation, NoParams, Empty,
                                "OperationError", "unknown", <<>>, <<>>)
            /\ held' = [kind |-> "none"]
       ELSE /\ answer' = Answer("required_params", operation, NoParams, Empty,
                                "ok", "none",
                                sorted(_operations[operation].params), <<>>)
            /\ held' = Held("set", operation, _operations[operation].params, FALSE)
    /\ UNCHANGED <<spec_data, _operations, loaded>>
    /\ UNCHANGED clientVars

\* describe_operation: a new dict with the sorted list of the parameters
describe_operation(operation) ==
    /\ loaded.out = "ok"
    /\ IF operation \notin DOMAIN _operations
       THEN /\ answer' = Answer("describe_operation", operation, NoParams, Empty,
                                "OperationError", "unknown", <<>>, <<>>)
            /\ held' = [kind |-> "none"]
       ELSE /\ answer' = Answer("describe_operation", operation, NoParams, Empty,
                                "ok", "none",
                                sorted(_operations[operation].params),
                                <<Text(_operations[operation].file)>>)
            /\ held' = Held("list", operation, _operations[operation].params, FALSE)
    /\ UNCHANGED <<spec_data, _operations, loaded>>
    /\ UNCHANGED clientVars

\* faulty variant: a value given in params wins over the keyword argument
merged_params_first(params, overrides) ==
    update(overrides, IF params.truthy THEN params.map ELSE Empty)

\* merged_params: params first (when it is truthy), then the overrides
merged_params(params, overrides) ==
    update(IF params.truthy THEN params.map ELSE Empty, overrides)

\* faulty variant: the undeclared names are reported before the missing ones
validate_extra_first(required, provided) ==
    IF provided \ required # {}
    THEN [why |-> "extra", names |-> sorted(provided \ required)]
    ELSE IF required \ provided # {}
    THEN [why |-> "missing", names |-> sorted(required \ provided)]
    ELSE [why |-> "none", names |-> <<>>]

\* the comparison of the provided names with the declared ones: missing
\* names are reported first, undeclared ones only when none is missing
validate(required, provided) ==
    IF required \ provided # {}
    THEN [why |-> "missing", names |-> sorted(required \ provided)]
    ELSE IF provided \ required # {}
    THEN [why |-> "extra", names |-> sorted(provided \ required)]
    ELSE [why |-> "none", names |-> <<>>]

\* faulty variant: a replacement field without a value is left in the text
render_lenient(template, merged) ==
    [why |-> "none", names |-> <<>>,
     value |-> [i \in DOMAIN template |->
                  IF template[i].k = "field" /\ template[i].s \notin DOMAIN merged
                  THEN template[i] ELSE FormatAtom(template[i], merged)]]

\* template.format(**merged_params); a KeyError becomes an OperationError
render(template, merged) ==
    IF Unfilled(template, merged) # {}
    THEN [why |-> "format", names |-> sorted(Unfilled(template, merged)),
          value |-> <<>>]
    ELSE [why |-> "none", names |-> <<>>,
          value |-> [i \in DOMAIN template |-> FormatAtom(template[i], merged)]]

\* faulty variant: an unknown operation renders as an empty query
lookup_lenient(operation) ==
    IF operation \in DOMAIN _operations
    THEN [known |-> TRUE, op |-> _operations[operation]]
    ELSE [known |-> TRUE, op |-> [file |-> None, params |-> {}, template |-> <<>>]]

\* self._operations.get(operation); nothing when the operation is unknown
lookup(operation) ==
    IF operation \in DOMAIN _operations
    THEN [known |-> TRUE, op |-> _operations[operation]]
    ELSE [known |-> FALSE, op |-> [file |-> None, params |-> {}, template |-> <<>>]]

\* get_operation(operation, params, **overrides)
get_operation(operation, params, overrides) ==
    /\ loaded.out = "ok"
    /\ LET found == lookup(operation)
           op == found.op
           merged == merged_params(params, overrides)
           raises(why, names) ==
               Answer("get_operation", operation, params, overrides,
                      "OperationError", why, names, <<>>)
       IN  answer' =
             IF ~found.known THEN raises("unknown", <<>>)
             ELSE IF params.truthy /\ params.kind # "dict"
             THEN raises("not-a-dict", <<>>)
             ELSE LET v == validate(op.params, DOMAIN merged)
                  IN  IF v.why # "none" THEN raises(v.why, v.names)
                      ELSE LET r == render(op.template, merged)
                           IN  IF r.why # "none" THEN raises(r.why, r.names)
                               ELSE Answer("get_operation", operation, params,
                                           overrides, "ok", "none", <<>>, r.value)
    /\ held' = Held("params", operation, DOMAIN params.map, FALSE)
    /\ UNCHANGED <<spec_data, _operations, loaded>>
    /\ UNCHANGED clientVars

\* the caller changes the collection the last call left with it; a
\* collection the driver still refers to changes inside the driver too
CallerMutates ==
    /\ loaded.out = "ok"
    /\ held.kind \in {"set", "list", "params"}
    /\ \E n \in ParamNames :
          /\ n \notin held.names
          /\ held' = [held EXCEPT !.names = @ \cup {n}]
          /\ _operations' =
                 IF held.shared
                 THEN [_operations EXCEPT ![held.operation].params = @ \cup {n}]
                 ELSE _operations
    /\ UNCHANGED <<spec_data, loaded, answer>>
    /\ UNCHANGED clientVars

InitTemplate == Init

NextTemplate ==
    \/ \E n \in 0..MaxEntries : \E sd \in [1..n -> EntryInputs] :
          TypeQLTemplateDriver(sd)
    \/ \E operation \in OperationInputs : has_operation(operation)
    \/ \E operation \in OperationInputs : required_params(operation)
    \/ \E operation \in OperationInputs : describe_operation(operation)
    \/ \E operation \in OperationInputs, params \in ParamArgs,
          overrides \in OverrideMaps :
          get_operation(operation, params, overrides)
    \/ CallerMutates

SpecTemplate == InitTemplate /\ [][NextTemplate]_vars

----------------------------------------------------------------------------
(* The construction of the client (TypeDBClient.__init__): the engine      *)
(* session is opened, then the operation catalog is loaded.                *)

\* how the template driver's constructor ends before it reaches the entries:
\* the directory, the file and the JSON array are there, one of them is not
\* (SpecificationError), or something else is raised
LoadStarts == {"ok", "SpecificationError", "Exception"}

\* TypeQLTemplateDriver(...) inside TypeDBClient.__init__
LoadCatalog(pre, sd) ==
    IF pre = "ok" THEN ProcessEntries(Empty, sd)
    ELSE [ops |-> Empty, end |-> Raised(pre, None, None)]

\* faulty variant: the session is closed only after the driver's own errors
TypeDBClient_leaky(connect, pre, sd, closes) ==
    /\ lastCall = NoCall
    /\ loaded.out = "no"
    /\ LET r == LoadCatalog(pre, sd)
           out == IF ~connect THEN "TypeDBClientError"
                  ELSE IF r.end.out = "ok" THEN "ok"
                  ELSE IF r.end.out \in {"SpecificationError", "TemplateFileError"}
                  THEN "TemplateProcessingError"
                  ELSE "TypeDBClientError"
       IN  /\ engine' = <<EngineCall("TypeDB.driver", "none", "none", connect)>> \o
                        (IF connect /\ r.end.out \in {"SpecificationError", "TemplateFileError"}
                         THEN <<EngineCall("driver.close", "none", "none", closes)>>
                         ELSE <<>>)
           /\ loaded' = IF connect THEN r.end ELSE loaded
           /\ _operations' = IF connect /\ r.end.out = "ok" THEN r.ops ELSE Empty
           /\ spec_data' = IF connect /\ pre = "ok" THEN sd ELSE <<>>
           /\ lastCall' = Finished("__init__", None, None, out)
           /\ error' = IF out = "ok" THEN "none" ELSE out
    /\ UNCHANGED <<store, active_version, syncVars, calls, lastCached, debug,
                   databases, readVars, concVars, answer, held>>

\* TypeDBClient.__init__: TypeDB.driver(...), then TypeQLTemplateDriver(...);
\* when the latter raises, self.driver.close() is tried and the error is
\* re-raised as TemplateProcessingError or TypeDBClientError
TypeDBClient(connect, pre, sd, closes) ==
    /\ lastCall = NoCall
    /\ loaded.out = "no"
    /\ LET r == LoadCatalog(pre, sd)
           out == IF ~connect THEN "TypeDBClientError"
                  ELSE IF r.end.out = "ok" THEN "ok"
                  ELSE IF r.end.out \in {"SpecificationError", "TemplateFileError"}
                  THEN "TemplateProcessingError"
                  ELSE "TypeDBClientError"
       IN  /\ engine' = <<EngineCall("TypeDB.driver", "none", "none", connect)>> \o
                        (IF connect /\ r.end.out # "ok"
                         THEN <<EngineCall("driver.close", "none", "none", closes)>>
                         ELSE <<>>)
           /\ loaded' = IF connect THEN r.end ELSE loaded
           /\ _operations' = IF connect /\ r.end.out = "ok" THEN r.ops ELSE Empty
           /\ spec_data' = IF connect /\ pre = "ok" THEN sd ELSE <<>>
           /\ lastCall' = Finished("__init__", None, None, out)
           /\ error' = IF out = "ok" THEN "none" ELSE out
    /\ UNCHANGED <<store, active_version, syncVars, calls, lastCached, debug,
                   databases, readVars, concVars, answer, held>>

\* TypeDBClient.close on a constructed client: self.driver.close(), whose
\* exception is swallowed
TypeDBClient_close(closes) ==
    /\ lastCall.op = "__init__"
    /\ lastCall.outcome = "ok"
    /\ engine' = Append(engine, EngineCall("driver.close", "none", "none", closes))
    /\ lastCall' = Finished("close", None, None, "ok")
    /\ error' = "none"
    /\ UNCHANGED <<store, active_version, syncVars, calls, lastCached, debug,
                   databases, readVars, concVars, tmplVars>>

NextConstruct ==
    \/ \E connect \in BOOLEAN, pre \in LoadStarts, closes \in BOOLEAN :
          \E n \in 0..MaxEntries : \E sd \in [1..n -> EntryInputs] :
             TypeDBClient(connect, pre, sd, closes)
    \/ \E closes \in BOOLEAN : TypeDBClient_close(closes)

SpecConstruct == Init /\ [][NextConstruct]_vars

----------------------------------------------------------------------------
(* Vocabulary of the properties of update_graph *)

\* the sequence of write calls update_graph has to issue for what it read
Plan == update_graph_calls(db_nodes, db_edges, nodes, edges, version)

PersistedNodeIds == {db_nodes[i].node_id : i \in 1..Len(db_nodes)}
PersistedEdgeIds == {db_edges[i].edge_id : i \in 1..Len(db_edges)}
DesiredNodeIds == {StrId(nodes[i].node_id) : i \in 1..Len(nodes)}
DesiredEdgeIds == {StrId(edges[i].edge_id) : i \in 1..Len(edges)}

PersistedNode(k) == db_nodes[CHOOSE i \in 1..Len(db_nodes) : db_nodes[i].node_id = k]
PersistedEdge(k) == db_edges[CHOOSE i \in 1..Len(db_edges) : db_edges[i].edge_id = k]

\* the desired node of id k: the last element of the list with that id
DesiredNode(k) ==
    nodes[CHOOSE i \in 1..Len(nodes) :
            /\ StrId(nodes[i].node_id) = k
            /\ \A j \in 1..Len(nodes) : StrId(nodes[j].node_id) = k => j <= i]

DesiredEdge(k) ==
    edges[CHOOSE i \in 1..Len(edges) :
            /\ StrId(edges[i].edge_id) = k
            /\ \A j \in 1..Len(edges) : StrId(edges[j].edge_id) = k => j <= i]

\* a node's persisted attributes p are the desired ones o (Python equality)
SameNode(p, o) ==
    /\ p.name = o.name
    /\ p.pos_x = o.pos_x
    /\ p.pos_y = o.pos_y
    /\ p.picture_path = o.picture_path
    /\ p.description = o.description

SameEndpoints(p, o) == p.node1 = StrId(o.node1) /\ p.node2 = StrId(o.node2)

SameEdge(p, o) == SameEndpoints(p, o) /\ p.description = o.description

NodeOps == {"node-create", "node-update", "node-delete"}
EdgeOps == {"edge-create", "edge-update", "edge-delete"}

\* the positions of the calls of operation op on id k in the sequence cs
NodeCallsAt(cs, op, k) ==
    {i \in 1..Len(cs) : cs[i].op = op /\ cs[i].node_id = k}
EdgeCallsAt(cs, op, k) ==
    {i \in 1..Len(cs) : cs[i].op = op /\ cs[i].edge_id = k}
TouchesNode(cs, k) == \E op \in NodeOps : NodeCallsAt(cs, op, k) # {}
TouchesEdge(cs, k) == \E op \in EdgeOps : EdgeCallsAt(cs, op, k) # {}

\* the persisted graph of the version equals the desired graph
Converged ==
    /\ DOMAIN store.nodes[version] = DesiredNodeIds
    /\ \A k \in DesiredNodeIds \cap DOMAIN store.nodes[version] :
         SameNode(store.nodes[version][k], DesiredNode(k))
    /\ DOMAIN store.edges[version] = DesiredEdgeIds
    /\ \A k \in DesiredEdgeIds \cap DOMAIN store.edges[version] :
         SameEdge(store.edges[version][k], DesiredEdge(k))

\* the graph read at the start equals the desired graph: no entity differs
NoDiff ==
    /\ PersistedNodeIds = DesiredNodeIds
    /\ \A k \in DesiredNodeIds \cap PersistedNodeIds :
         SameNode(PersistedNode(k), DesiredNode(k))
    /\ PersistedEdgeIds = DesiredEdgeIds
    /\ \A k \in DesiredEdgeIds \cap PersistedEdgeIds :
         SameEdge(PersistedEdge(k), DesiredEdge(k))

----------------------------------------------------------------------------
(* C1: when update_graph returns without error, the persisted nodes and   *)
(* edges of the version equal the desired ones: same ids as strings, same *)
(* name, pos_x, pos_y, picture_path, description of every node, same      *)
(* node1, node2, description of every edge.                               *)
C1_Convergence == pc = "done" => Converged

(* C2: a second update_graph with the same arguments, run right after a   *)
(* successful first one, issues no write call at all.                     *)
C2_Idempotence == (repeat /\ pc \in {"run", "done"}) => Plan = <<>>

(* C3: one update_graph call issues exactly one delete for every persisted *)
(* node/edge id absent from the desired state, exactly one create for      *)
(* every desired id absent from the persisted state, and no call at all    *)
(* for an id in both whose compared fields are all equal.                  *)
C3_Minimality ==
    pc = "done" =>
      /\ \A k \in PersistedNodeIds \ DesiredNodeIds :
           Cardinality(NodeCallsAt(log, "node-delete", k)) = 1
      /\ \A k \in DesiredNodeIds \ PersistedNodeIds :
           Cardinality(NodeCallsAt(log, "node-create", k)) = 1
      /\ \A k \in PersistedNodeIds \cap DesiredNodeIds :
           SameNode(PersistedNode(k), DesiredNode(k)) => ~TouchesNode(log, k)
      /\ \A k \in PersistedEdgeIds \ DesiredEdgeIds :
           Cardinality(EdgeCallsAt(log, "edge-delete", k)) = 1
      /\ \A k \in DesiredEdgeIds \ PersistedEdgeIds :
           Cardinality(EdgeCallsAt(log, "edge-create", k)) = 1
      /\ \A k \in PersistedEdgeIds \cap DesiredEdgeIds :
           SameEdge(PersistedEdge(k), DesiredEdge(k)) => ~TouchesEdge(log, k)

\* a finished call that deleted one entity, created another and left a third,
\* unchanged one alone
C3_Witness ==
    /\ pc = "done"
    /\ Len(log) = 2
    /\ \E i \in 1..2 : log[i].op \in {"node-delete", "edge-delete"}
    /\ \E i \in 1..2 : log[i].op \in {"node-create", "edge-create"}
    /\ \/ \E k \in PersistedNodeIds \cap DesiredNodeIds :
            SameNode(PersistedNode(k), DesiredNode(k))
       \/ \E k \in PersistedEdgeIds \cap DesiredEdgeIds :
            SameEdge(PersistedEdge(k), DesiredEdge(k))

\* an entity of the graph read at the start differs from the desired one
NodeDiffers(k) ==
    \/ k \notin PersistedNodeIds
    \/ k \notin DesiredNodeIds
    \/ ~SameNode(PersistedNode(k), DesiredNode(k))
EdgeDiffers(k) ==
    \/ k \notin PersistedEdgeIds
    \/ k \notin DesiredEdgeIds
    \/ ~SameEdge(PersistedEdge(k), DesiredEdge(k))

(* C4: a sync whose desired state equals the persisted state performs the  *)
(* one read of the graph and no write call; every write call of any sync   *)
(* is for an entity that differs.                                          *)
C4_NoDiffNoWrite ==
    pc \in {"run", "done"} =>
      /\ NoDiff => (reads = 1 /\ log = <<>> /\ pending = <<>>)
      /\ \A i \in 1..Len(log) :
           IF log[i].op \in NodeOps THEN NodeDiffers(log[i].node_id)
           ELSE EdgeDiffers(log[i].edge_id)

\* a finished sync of a non-empty graph that was already as desired
C4_Witness ==
    /\ pc = "done"
    /\ NoDiff
    /\ DesiredNodeIds # {}
    /\ DesiredEdgeIds # {}

(* C5: for an edge id in both states whose node1 or node2 differs, sync    *)
(* issues exactly one edge_delete(id) immediately followed by the one      *)
(* edge_create(id) with the desired endpoints and description, and no      *)
(* edge_update(id); with equal endpoints and a different description it    *)
(* issues exactly one edge_update(id) and no delete or create.             *)
C5_EdgeEndpointChange ==
    pc = "done" =>
      \A k \in PersistedEdgeIds \cap DesiredEdgeIds :
        LET p == PersistedEdge(k)
            o == DesiredEdge(k)
            del == EdgeCallsAt(log, "edge-delete", k)
            cre == EdgeCallsAt(log, "edge-create", k)
            upd == EdgeCallsAt(log, "edge-update", k)
        IN  /\ ~SameEndpoints(p, o) =>
                 /\ upd = {}
                 /\ \E i \in 1..Len(log) :
                      /\ del = {i}
                      /\ cre = {i + 1}
                      /\ log[i + 1].node1_id = StrId(o.node1)
                      /\ log[i + 1].node2_id = StrId(o.node2)
                      /\ log[i + 1].description = o.description
            /\ (SameEndpoints(p, o) /\ p.description # o.description) =>
                 /\ del = {}
                 /\ cre = {}
                 /\ \E i \in 1..Len(log) :
                      upd = {i} /\ log[i].description = o.description

\* a finished sync that re-created an edge whose endpoints and description
\* both changed
C5_Witness ==
    /\ pc = "done"
    /\ \E k \in PersistedEdgeIds \cap DesiredEdgeIds :
         /\ ~SameEndpoints(PersistedEdge(k), DesiredEdge(k))
         /\ PersistedEdge(k).description # DesiredEdge(k).description
         /\ EdgeCallsAt(log, "edge-create", k) # {}

\* the phase of a call in the order the specification gives
PhaseOf(c) ==
    CASE c.op = "node-delete" -> 1
      [] c.op = "node-create" -> 2
      [] c.op = "node-update" -> 3
      [] c.op = "edge-delete" -> 4
      [] c.op = "edge-create" -> 5
      [] c.op = "edge-update" -> 6

(* C6 as stated: within one sync call every node deletion precedes every   *)
(* node creation, which precedes every node update, which precedes every   *)
(* edge deletion, which precedes every edge creation, which precedes every *)
(* edge update.                                                            *)
C6_Original ==
    \A i, j \in 1..Len(log) : i < j => PhaseOf(log[i]) <= PhaseOf(log[j])

\* the loop of update_graph that issues a call: an edge call for an id that
\* is in both the persisted and the desired state comes from the last loop
LoopOf(c) ==
    IF c.op \in EdgeOps /\ c.edge_id \in PersistedEdgeIds \cap DesiredEdgeIds
    THEN 6
    ELSE PhaseOf(c)

(* C6 as amended: node deletions precede node creations, which precede     *)
(* node updates, which precede the deletions of edges absent from the      *)
(* desired state, which precede the creations of edges absent from the     *)
(* persisted state, which precede the calls for edges present in both      *)
(* (edge_update, or edge_delete immediately followed by edge_create for an *)
(* edge whose endpoints changed); each step issues the one next call.      *)
C6_LoopOrder ==
    /\ \A i, j \in 1..Len(log) : i < j => LoopOf(log[i]) <= LoopOf(log[j])
    /\ pc = "done" =>
         \A i \in 1..Len(log) :
            (LoopOf(log[i]) = 6 /\ log[i].op = "edge-delete") =>
               /\ i < Len(log)
               /\ log[i + 1].op = "edge-create"
               /\ log[i + 1].edge_id = log[i].edge_id
    /\ (pc \in {"run", "done"} \/ failed # <<>>) => log \o pending = Plan

\* a finished sync that created a new edge and then re-created an edge whose
\* endpoints changed: an edge deletion after an edge creation
C6_Witness ==
    /\ pc = "done"
    /\ \E i, j \in 1..Len(log) :
         i < j /\ log[i].op = "edge-create" /\ log[j].op = "edge-delete"

\* the database as update_graph read it at its start
StartStore ==
    [store EXCEPT
       !.nodes[version] =
          [k \in PersistedNodeIds |->
             [name |-> PersistedNode(k).name, pos_x |-> PersistedNode(k).pos_x,
              pos_y |-> PersistedNode(k).pos_y,
              picture_path |-> PersistedNode(k).picture_path,
              description |-> PersistedNode(k).description]],
       !.edges[version] =
          [k \in PersistedEdgeIds |->
             [node1 |-> PersistedEdge(k).node1, node2 |-> PersistedEdge(k).node2,
              description |-> PersistedEdge(k).description]]]

\* the database after the calls cs have committed, in order
RECURSIVE Replay(_, _)
Replay(st, cs) ==
    IF cs = <<>> THEN st
    ELSE Replay(ApplyWrite(st, _build_query(Head(cs))), Tail(cs))

(* C7: if the k-th write call of an update_graph sequence fails,           *)
(* update_graph fails with that error, the effects of the k-1 committed    *)
(* calls remain persisted (nothing is undone, no other call is issued),    *)
(* and none of the remaining calls is issued.                              *)
C7_NoRollback ==
    failed # <<>> =>
      /\ pc = "failed"
      /\ error \in WriteErrors
      /\ Len(log) < Len(Plan)
      /\ log = SubSeq(Plan, 1, Len(log))
      /\ failed = <<Plan[Len(log) + 1]>>
      /\ store = Replay(StartStore, log)

\* the second of at least three calls failed: one call is committed and at
\* least one is never issued
C7_Witness ==
    /\ pc = "failed"
    /\ failed # <<>>
    /\ Len(log) = 1
    /\ Len(Plan) >= 3
    /\ store # StartStore

----------------------------------------------------------------------------
(* Properties of the cached active version *)

\* the methods that take an optional version
VersionedOps ==
    {"node-create", "node-update", "node-delete", "edge-create", "edge-update",
     "edge-delete", "graph-by-version-get", "graph-by-version-delete"}

(* C8: a call that omits the version either fails with ActiveVersionError  *)
(* or uses a cached version that is, when the call is made, the store's    *)
(* active version and an existing board version; it never proceeds with a  *)
(* stale or fabricated version.                                            *)
C8_ActiveVersionPointer ==
    [][(lastCall'.op \in VersionedOps /\ lastCall'.version = None) =>
          \/ lastCall'.outcome = "ActiveVersionError"
          \/ /\ lastCall'.resolved = store.active
             /\ lastCall'.resolved \in store.versions]_vars

(* C9: _resolve_version(explicit) returns explicit whenever it is not      *)
(* None; _resolve_version(None) fails with ActiveVersionError as long as   *)
(* no load_active_version or set_active_version call has succeeded, and    *)
(* returns the version the last successful such call cached; the methods   *)
(* with an optional version resolve it that way.                           *)
C9_VersionResolution ==
    /\ \A v \in Versions :
         _resolve_version(v, active_version) = [ok |-> TRUE, version |-> v]
    /\ _resolve_version(None, active_version) =
         IF lastCached = None THEN [ok |-> FALSE, version |-> None]
         ELSE [ok |-> TRUE, version |-> lastCached]
    /\ (lastCall.op = "set-active-version" /\ lastCall.outcome = "ok") =>
         _resolve_version(None, active_version) =
            [ok |-> TRUE, version |-> lastCall.version]
    /\ lastCall.op \in VersionedOps =>
         IF lastCall.version # None THEN lastCall.resolved = lastCall.version
         ELSE IF lastCached = None THEN lastCall.outcome = "ActiveVersionError"
         ELSE lastCall.resolved = lastCached /\ lastCall.outcome \in Outcomes

\* after a successful set_active_version("v2") and a later failed load, a
\* call without version has resolved "v2"
C9_Witness ==
    /\ lastCall.op = "node-create"
    /\ lastCall.version = None
    /\ lastCall.resolved = "v2"
    /\ lastCached = "v2"
    /\ store.active = "v2"

(* C10: set_active_version(v) sets the cached active version to v only     *)
(* when the write has committed; when building the query, the query or     *)
(* the commit fails, the cache keeps its previous value; right after every *)
(* successful call the cache equals the store's active version.            *)
C10_SetActiveVersion ==
    [][lastCall'.op = "set-active-version" =>
          IF lastCall'.outcome = "ok"
          THEN /\ active_version' = lastCall'.version
               /\ store'.active = active_version'
          ELSE /\ lastCall'.outcome \in WriteErrors
               /\ active_version' = active_version
               /\ store' = store]_vars

\* a set_active_version that failed and left another version cached
C10_Witness ==
    /\ lastCall.op = "set-active-version"
    /\ lastCall.outcome = "QueryExecutionError"
    /\ active_version \notin {None, lastCall.version}
    /\ active_version = store.active

----------------------------------------------------------------------------
(* Vocabulary of the properties of the engine-level methods *)

\* the last call was op and its read returned documents to the method
ReadReturned(op) ==
    /\ lastCall.op = op
    /\ engine # <<>>
    /\ Succeeded(engine)

HasActiveVersion(d) == "active_version" \in DOMAIN d

\* the calls of the last client call that are named c
CallsNamed(c) == {i \in 1..Len(engine) : engine[i].call = c}

\* the last call ran its one query q inside one transaction of kind tx_type
OneTransaction(tx_type, q) ==
    /\ Cardinality(CallsNamed("transaction")) = 1
    /\ engine[1] = EngineCall("transaction", tx_type, q, TRUE)
    /\ Cardinality(CallsNamed("query")) = 1
    /\ engine[2].call = "query" /\ engine[2].q = q

(* C11 as stated: load_active_version reads get-active-version; it fails   *)
(* with ActiveVersionError exactly when no returned document has the field *)
(* active_version, and otherwise caches that document's value.             *)
C11_Original ==
    ReadReturned("get-active-version") =>
       /\ OneTransaction("READ", "get-active-version")
       /\ lastCall.outcome = "ActiveVersionError"
            <=> ~\E i \in 1..Len(lastDocs) : HasActiveVersion(lastDocs[i])
       /\ lastCall.outcome # "ActiveVersionError" =>
            /\ lastCall.outcome = "ok"
            /\ \E i \in 1..Len(lastDocs) :
                 /\ HasActiveVersion(lastDocs[i])
                 /\ active_version = lastDocs[i].active_version

(* C11: load_active_version reads get-active-version in one READ           *)
(* transaction; it fails with ActiveVersionError exactly when no returned  *)
(* document has the field active_version or the first document that has it *)
(* holds a null value, and otherwise it caches the value of the first      *)
(* document that has the field.                                            *)
C11_LoadActiveVersion ==
    ReadReturned("get-active-version") =>
       LET with == {i \in 1..Len(lastDocs) : HasActiveVersion(lastDocs[i])}
           first == CHOOSE i \in with : \A j \in with : i <= j
       IN  /\ OneTransaction("READ", "get-active-version")
           /\ lastCall.outcome = "ActiveVersionError"
                <=> (with = {} \/ lastDocs[first].active_version = None)
           /\ lastCall.outcome # "ActiveVersionError" =>
                /\ lastCall.outcome = "ok"
                /\ active_version = lastDocs[first].active_version
                /\ active_version # None

\* the read answered a null active_version before a version, and the load
\* failed with ActiveVersionError
C11_Witness ==
    /\ ReadReturned("get-active-version")
    /\ lastCall.outcome = "ActiveVersionError"
    /\ Len(lastDocs) = 2
    /\ HasActiveVersion(lastDocs[1]) /\ lastDocs[1].active_version = None
    /\ HasActiveVersion(lastDocs[2]) /\ lastDocs[2].active_version = "v1"

GatedOps == {"create-database", "drop-database", "investigation-create",
             "investigation-delete"}

(* C12: create_database, drop_database, investigation_create and           *)
(* investigation_delete, called while DEBUG_DB is unset, fail with         *)
(* OperationIsNotAllowed, make no engine call at all and leave the         *)
(* engine's databases and data as they were.                               *)
C12_DebugGate ==
    [][(lastCall'.op \in GatedOps /\ ~debug) =>
          /\ lastCall'.outcome = "OperationIsNotAllowed"
          /\ engine' = <<>>
          /\ databases' = databases
          /\ store' = store]_vars

\* investigation_delete was refused while the database holds a node
C12_Witness ==
    /\ ~debug
    /\ lastCall.op = "investigation-delete"
    /\ lastCall.outcome = "OperationIsNotAllowed"
    /\ engine = <<>>
    /\ "1" \in DOMAIN store.nodes["v1"]

(* C13: while DEBUG_DB is unset no client method, ensure_database_exists   *)
(* included, has databases.create or databases.delete called on the        *)
(* engine.                                                                 *)
C13_DebugOnlyDatabases ==
    ~debug => \A i \in 1..Len(engine) :
                 engine[i].call \notin {"databases.create", "databases.delete"}

\* a call of the schema transaction other than its close raised
SchemaFailed ==
    \E i \in 1..Len(engine) :
       engine[i].tx = "SCHEMA" /\ engine[i].call # "close" /\ ~engine[i].ok

(* C14: investigation_create applies the schema in a SCHEMA transaction    *)
(* before the investigation-create operation: every engine call of that    *)
(* operation comes after the committed and closed schema transaction, and  *)
(* when opening, querying or committing the schema transaction fails the   *)
(* call fails with QueryExecutionError and investigation-create is neither *)
(* rendered nor executed.                                                  *)
C14_SchemaFirst ==
    (lastCall.op = "investigation-create" /\ engine # <<>>) =>
       /\ engine[1].call = "transaction" /\ engine[1].tx = "SCHEMA"
       /\ \A i \in 1..Len(engine) : engine[i].q = "investigation-create" =>
            /\ i > 4
            /\ engine[2] = EngineCall("query", "SCHEMA", "schema", TRUE)
            /\ engine[3] = EngineCall("commit", "SCHEMA", "schema", TRUE)
            /\ engine[4].call = "close" /\ engine[4].tx = "SCHEMA"
       /\ SchemaFailed =>
            /\ lastCall.outcome = "QueryExecutionError"
            /\ \A i \in 1..Len(engine) : engine[i].tx = "SCHEMA"

\* the commit of the schema transaction failed
C14_Witness ==
    /\ lastCall.op = "investigation-create"
    /\ lastCall.outcome = "QueryExecutionError"
    /\ Len(engine) = 4
    /\ engine[3] = EngineCall("commit", "SCHEMA", "schema", FALSE)

(* C15: graph_by_version_get returns the document when its read yields    *)
(* exactly one document, and fails with QueryExecutionError when the read  *)
(* yields no document or more than one.                                    *)
C15_ExactlyOneDocument ==
    ReadReturned("graph-by-version-get") =>
       IF Len(lastDocs) = 1
       THEN lastCall.outcome = "ok" /\ returned = lastDocs[1]
       ELSE lastCall.outcome = "QueryExecutionError" /\ returned = None

\* the read answered two documents
C15_Witness ==
    /\ ReadReturned("graph-by-version-get")
    /\ Len(lastDocs) = 2
    /\ lastCall.outcome = "QueryExecutionError"

(* C16: get_versions fails with QueryExecutionError when its read returns  *)
(* no document and when it returns more than one document.                 *)
C16_GetVersions ==
    (ReadReturned("get-versions") /\ Len(lastDocs) # 1) =>
       lastCall.outcome = "QueryExecutionError"

\* the calls strictly between positions i and j of the last call's trace
Between(i, j) == {engine[k].call : k \in (i + 1)..(j - 1)}

\* the methods that end with _execute_write
WriteOps ==
    {"node-create", "graph-by-version-delete", "graph-by-version-create",
     "set-active-version", "investigation-create", "investigation-delete"}

(* C17: in every client call each transaction that was opened is closed    *)
(* exactly once before the call ends, whether its query, its commit or the *)
(* materialisation of its documents succeeded or raised; every query and   *)
(* commit runs inside an open transaction; a failed open ends the call;    *)
(* and an exception of close is swallowed: it does not change the outcome. *)
C17_TransactionDiscipline ==
    /\ \A i \in 1..Len(engine) :
         (engine[i].call = "transaction" /\ engine[i].ok) =>
            \E j \in (i + 1)..Len(engine) :
               /\ engine[j].call = "close" /\ engine[j].tx = engine[i].tx
               /\ Between(i, j) \cap {"transaction", "close"} = {}
    /\ \A j \in 1..Len(engine) :
         engine[j].call \in {"close", "query", "commit", "as_concept_documents"} =>
            \E i \in 1..(j - 1) :
               /\ engine[i].call = "transaction" /\ engine[i].ok
               /\ Between(i, j) \cap {"transaction", "close"} = {}
    /\ \A i \in 1..Len(engine) :
         (engine[i].call = "transaction" /\ ~engine[i].ok) => i = Len(engine)
    /\ (lastCall.op \in WriteOps /\ engine # <<>>) =>
         /\ Succeeded(engine) /\ engine[Len(engine)].call = "close" =>
              lastCall.outcome \in {"ok", "TemplateProcessingError"}
         /\ ~Succeeded(engine) => lastCall.outcome = "QueryExecutionError"

\* a commit raised and the close after it raised too
C17_Witness ==
    /\ lastCall.op = "set-active-version"
    /\ lastCall.outcome = "QueryExecutionError"
    /\ Len(engine) = 4
    /\ engine[3].call = "commit" /\ ~engine[3].ok
    /\ engine[4].call = "close" /\ ~engine[4].ok

\* the catalog operations of the client's domain methods
DomainOps ==
    WriteOps \cup {"get-active-version", "get-versions", "graph-by-version-get"}

\* the last call opened at most n transactions, one after the other was
\* closed, with at most one query in each, and exactly n with one query each
\* when it returned normally
Transactions(n) ==
    /\ Cardinality(CallsNamed("transaction")) <= n
    /\ Cardinality(CallsNamed("query")) <= Cardinality(CallsNamed("transaction"))
    /\ \A i, j \in CallsNamed("query") :
         i < j => "transaction" \in Between(i, j)
    /\ lastCall.outcome = "ok" =>
         /\ Cardinality(CallsNamed("transaction")) = n
         /\ Cardinality(CallsNamed("query")) = n
         /\ Cardinality(CallsNamed("close")) = n
         /\ engine[Len(engine)].call = "close"

(* C18 as stated: every domain method other than update_graph opens        *)
(* exactly one transaction, performs exactly one query in it and closes it *)
(* before returning.                                                       *)
C18_Original ==
    lastCall.op \in DomainOps => Transactions(1)

(* C18: every domain method other than update_graph and                    *)
(* investigation_create opens at most one transaction with at most one     *)
(* query, and exactly one transaction with one query, closed before the    *)
(* method returns, when it returns normally; investigation_create opens    *)
(* two, the SCHEMA transaction and after its close the WRITE transaction,  *)
(* with one query each.                                                    *)
C18_OneTransaction ==
    /\ lastCall.op \in DomainOps \ {"investigation-create"} => Transactions(1)
    /\ lastCall.op = "investigation-create" =>
         /\ Transactions(2)
         /\ \A i \in CallsNamed("transaction") :
              engine[i].tx = IF i = 1 THEN "SCHEMA" ELSE "WRITE"

\* investigation_create returned after its two transactions
C18_Witness ==
    /\ lastCall.op = "investigation-create"
    /\ lastCall.outcome = "ok"
    /\ Cardinality(CallsNamed("transaction")) = 2
    /\ Cardinality(CallsNamed("close")) = 2

----------------------------------------------------------------------------
(* Vocabulary of the properties of concurrent update_graph calls *)

\* the write calls committed so far, in commit order
Committed == [i \in 1..Len(commits) |-> commits[i].call]

\* the last committed call on node k / on edge k
LastOnNode(k) ==
    Committed[CHOOSE i \in 1..Len(commits) :
                /\ Committed[i].op \in NodeOps /\ Committed[i].node_id = k
                /\ \A j \in (i + 1)..Len(commits) :
                     ~(Committed[j].op \in NodeOps /\ Committed[j].node_id = k)]

LastOnEdge(k) ==
    Committed[CHOOSE i \in 1..Len(commits) :
                /\ Committed[i].op \in EdgeOps /\ Committed[i].edge_id = k
                /\ \A j \in (i + 1)..Len(commits) :
                     ~(Committed[j].op \in EdgeOps /\ Committed[j].edge_id = k)]

\* the persisted graph of caller p's version equals what p asked for
CallerConverged(p) ==
    LET fr == syncs[p]
        ids == {StrId(fr.nodes[i].node_id) : i \in 1..Len(fr.nodes)}
        eids == {StrId(fr.edges[i].edge_id) : i \in 1..Len(fr.edges)}
    IN  /\ DOMAIN store.nodes[fr.version] = ids
        /\ \A i \in 1..Len(fr.nodes) :
             (\A j \in (i + 1)..Len(fr.nodes) : fr.nodes[j].node_id # fr.nodes[i].node_id)
                => SameNode(store.nodes[fr.version][StrId(fr.nodes[i].node_id)], fr.nodes[i])
        /\ DOMAIN store.edges[fr.version] = eids
        /\ \A i \in 1..Len(fr.edges) :
             (\A j \in (i + 1)..Len(fr.edges) : fr.edges[j].edge_id # fr.edges[i].edge_id)
                => SameEdge(store.edges[fr.version][StrId(fr.edges[i].edge_id)], fr.edges[i])

(* C19: two update_graph calls on one version interleave freely: a caller  *)
(* that may start can start and a caller with a write to issue can issue   *)
(* it whatever the other caller does; the calls a caller issues are the    *)
(* sequence computed from the graph it read at its start and its own       *)
(* desired state, never recomputed; and every node and edge that a         *)
(* committed write touched holds what the last such write left: absent     *)
(* after a delete, the written values after a create, and after an update  *)
(* the written values unless absent.                                       *)
C19_Uncoordinated ==
    /\ \A p \in Callers :
         /\ syncs[p].pc = "idle" => ENABLED ConcUpdateGraph(p, ConcVersion, <<>>, <<>>)
         /\ syncs[p].pc = "run" => ENABLED ConcIssueCall(p)
         /\ syncs[p].pc # "idle" =>
              syncs[p].log \o syncs[p].pending =
                 update_graph_calls(syncs[p].db_nodes, syncs[p].db_edges,
                                    syncs[p].nodes, syncs[p].edges, syncs[p].version)
    /\ \A k \in {StrId(i) : i \in NodeIds} :
         TouchesNode(Committed, k) =>
            LET c == LastOnNode(k)
                has == k \in DOMAIN store.nodes[ConcVersion]
                same == /\ store.nodes[ConcVersion][k].name = c.name
                        /\ store.nodes[ConcVersion][k].pos_x = c.pos_x
                        /\ store.nodes[ConcVersion][k].description = c.description
            IN  CASE c.op = "node-delete" -> ~has
                  [] c.op = "node-create" -> has /\ same
                  [] c.op = "node-update" -> has => same
    /\ \A k \in {StrId(i) : i \in EdgeIds} :
         TouchesEdge(Committed, k) =>
            LET c == LastOnEdge(k)
                has == k \in DOMAIN store.edges[ConcVersion]
            IN  CASE c.op = "edge-delete" -> ~has
                  [] c.op = "edge-create" ->
                       has /\ store.edges[ConcVersion][k].node1 = c.node1_id
                           /\ store.edges[ConcVersion][k].description = c.description
                  [] c.op = "edge-update" ->
                       has => store.edges[ConcVersion][k].description = c.description

\* both calls returned without error, their writes interleaved, and the
\* persisted graph is neither caller's desired graph
C19_Witness ==
    /\ \A p \in Callers : syncs[p].pc = "done" /\ syncs[p].log # <<>>
    /\ \A p \in Callers : ~CallerConverged(p)
    /\ \E i \in 1..(Len(commits) - 2) :
         /\ commits[i].caller = commits[i + 2].caller
         /\ commits[i].caller # commits[i + 1].caller

----------------------------------------------------------------------------
(* Vocabulary of the create/read/delete round trip *)

\* the call that ends in this step is op with the explicit version v, and
\* it returns normally
Returns(op, v) ==
    /\ lastCall'.op = op
    /\ lastCall'.version = v
    /\ lastCall'.outcome = "ok"

\* what graph_by_version_get lists for the created node n / edge e
CreatedNode(n) ==
    [node_id |-> StrId(n.node_id), name |-> n.name, pos_x |-> n.pos_x,
     pos_y |-> n.pos_y, picture_path |-> n.picture_path,
     description |-> n.description]

CreatedEdge(e) ==
    [edge_id |-> StrId(e.edge_id), node1 |-> StrId(e.node1),
     node2 |-> StrId(e.node2), description |-> e.description]

----------------------------------------------------------------------------
(* Vocabulary of the properties of the template driver *)

\* the constructor has run on spec_data
Constructed == loaded.out # "no"

\* entry e has its three fields, each of the right type and not empty
Shaped(e) == e.object /\ e.operation # None /\ e.file # None /\ e.params # None

\* entries i < j of sd carry the same operation name
SameName(sd, i, j) ==
    /\ i < j
    /\ sd[i].object /\ sd[j].object
    /\ sd[i].operation # None
    /\ sd[i].operation = sd[j].operation

HasDuplicate(sd) == \E i, j \in DOMAIN sd : SameName(sd, i, j)

\* entry k of sd is well-formed and names a file absent from the directory
AbsentFile(sd, k) ==
    /\ sd[k].object
    /\ sd[k].file # None
    /\ FileStatus(sd[k].file) = "absent"

\* entry k of sd is well-formed, repeats no earlier name, and its template
\* file cannot be read
BadFile(sd, k) ==
    /\ Shaped(sd[k])
    /\ ~ \E i \in DOMAIN sd : SameName(sd, i, k)
    /\ FileStatus(sd[k].file) # "file"

\* entry k of sd fails one of the loader's checks
Bad(sd, k) ==
    \/ ~Shaped(sd[k])
    \/ \E i \in DOMAIN sd : SameName(sd, i, k)
    \/ FileStatus(sd[k].file) # "file"

\* the first entry of sd, in array order, that fails a check
FirstBad(sd) == CHOOSE k \in DOMAIN sd : Bad(sd, k) /\ \A i \in 1..(k - 1) : ~Bad(sd, i)

----------------------------------------------------------------------------
\* C21 as stated: loading a catalog in which two entries carry the same
\* operation name fails with SpecificationError, whatever the other fields
\* of the entries are and whether or not their template files exist.
C21_Original ==
    Constructed /\ HasDuplicate(spec_data) => loaded.out = "SpecificationError"

\* C21: loading a catalog in which two entries carry the same operation name
\* always fails; the error is that of the first entry in array order that
\* fails a check: SpecificationError, unless that entry is well-formed,
\* repeats no earlier name and its template file is absent or unreadable,
\* and then TemplateFileError.
C21_DuplicateFails ==
    Constructed /\ HasDuplicate(spec_data) =>
        /\ loaded.out \in {"SpecificationError", "TemplateFileError"}
        /\ loaded.out = "TemplateFileError" <=>
               BadFile(spec_data, FirstBad(spec_data))

\* the second entry of a same-name pair was reached and rejected, although
\* its template file is absent as well
C21_Witness ==
    /\ Constructed
    /\ \E i, j \in DOMAIN spec_data :
          /\ SameName(spec_data, i, j)
          /\ j = FirstBad(spec_data)
          /\ AbsentFile(spec_data, j)
    /\ loaded.out = "SpecificationError"

----------------------------------------------------------------------------
\* C22 as stated: loading a catalog in which some entry's template file is
\* absent fails with TemplateFileError naming that file and the operation,
\* and yields no catalog.
C22_Original ==
    Constructed /\ (\E k \in DOMAIN spec_data : AbsentFile(spec_data, k)) =>
        /\ loaded.out = "TemplateFileError"
        /\ \E k \in DOMAIN spec_data :
              /\ AbsentFile(spec_data, k)
              /\ loaded.file = spec_data[k].file
              /\ loaded.operation = spec_data[k].operation
        /\ _operations = Empty

\* C22: loading a catalog in which some entry's template file is absent
\* always fails and yields no catalog; when the first entry that fails a
\* check is well-formed, repeats no earlier name and lacks its file, the
\* error is TemplateFileError naming that file and that operation, and
\* otherwise it is SpecificationError.
C22_AbsentFileFails ==
    Constructed /\ (\E k \in DOMAIN spec_data : AbsentFile(spec_data, k)) =>
        /\ _operations = Empty
        /\ LET k == FirstBad(spec_data)
           IN  IF BadFile(spec_data, k)
               THEN loaded = Raised("TemplateFileError", spec_data[k].operation,
                                    spec_data[k].file)
               ELSE loaded.out = "SpecificationError"

\* the load stopped at an absent file after an entry had been loaded
C22_Witness ==
    /\ Constructed
    /\ Len(spec_data) >= 2
    /\ ~Bad(spec_data, 1)
    /\ AbsentFile(spec_data, 2)
    /\ loaded = Raised("TemplateFileError", spec_data[2].operation, spec_data[2].file)
    /\ _operations = Empty

----------------------------------------------------------------------------
(* Vocabulary of the properties of get_operation *)

\* the last call was get_operation
Rendered == answer.call = "get_operation"

\* the operation of the last call is in the loaded catalog
Known == answer.operation \in DOMAIN _operations

\* the params argument of the last call was omitted or a dict
Mapping == answer.params.kind \in {"dict", "None"}

\* the last get_operation call reached the comparison of the names
Validated == Rendered /\ Known /\ ~(answer.params.kind = "list" /\ answer.params.truthy)

\* the names of the merged parameters and the declared ones
Provided == DOMAIN answer.params.map \cup DOMAIN answer.overrides
Declared == _operations[answer.operation].params

\* the value the merged parameters give to name n
MergedValue(n) ==
    IF n \in DOMAIN answer.overrides THEN answer.overrides[n] ELSE answer.params.map[n]

\* str(v) of a parameter value
Stringified(v) == IF v = None THEN "None" ELSE v

\* seq lists exactly the names of S, each once, in ascending order
SortedListOf(seq, S) ==
    /\ Len(seq) = Cardinality(S)
    /\ Range(seq) = S
    /\ \A i, j \in DOMAIN seq :
          i < j => \E a, b \in DOMAIN NameOrder :
                      a < b /\ NameOrder[a] = seq[i] /\ NameOrder[b] = seq[j]

\* the replacement fields of the template of the last call's operation
TemplateFields ==
    LET t == _operations[answer.operation].template
    IN  {t[i].s : i \in {j \in DOMAIN t : t[j].k = "field"}}

----------------------------------------------------------------------------
----------------------------------------------------------------------------
\* C24: when the merged parameters lack a declared parameter, get_operation
\* fails with OperationError listing exactly the missing names in sorted
\* order, also when undeclared parameters are supplied; undeclared names
\* are reported only when nothing is missing.
C24_MissingFirst ==
    Validated =>
        /\ Declared \ Provided # {} =>
              /\ answer.out = "OperationError"
              /\ answer.why = "missing"
              /\ SortedListOf(answer.names, Declared \ Provided)
              /\ answer.value = <<>>
        /\ answer.why = "extra" => Declared \subseteq Provided

\* two parameters are missing while an undeclared one is supplied
C24_Witness ==
    /\ Validated
    /\ answer.operation = "a"
    /\ Provided = {"z"}
    /\ answer.why = "missing"
    /\ answer.names = <<"x", "y">>

----------------------------------------------------------------------------
\* C25: when the merged parameters contain every declared parameter and at
\* least one undeclared one, get_operation fails with OperationError listing
\* exactly the undeclared names in sorted order and returns no query.
C25_StrictArity ==
    Validated /\ Declared \subseteq Provided /\ Provided \ Declared # {} =>
        /\ answer.out = "OperationError"
        /\ answer.why = "extra"
        /\ SortedListOf(answer.names, Provided \ Declared)
        /\ answer.value = <<>>

\* operation b got its parameter and two undeclared ones
C25_Witness ==
    /\ Validated
    /\ answer.operation = "b"
    /\ Provided = {"x", "y", "z"}
    /\ answer.out = "OperationError"
    /\ answer.names = <<"y", "z">>

----------------------------------------------------------------------------
\* C26: a key given both in the params mapping and as a named override is
\* rendered with the override's value; a key given only in the mapping keeps
\* the mapping's value.
C26_OverrideWins ==
    Rendered /\ answer.out = "ok" =>
        LET t == _operations[answer.operation].template
        IN  \A i \in DOMAIN t :
               t[i].k = "field" =>
                  /\ t[i].s \in DOMAIN answer.overrides =>
                        answer.value[i].s = Stringified(answer.overrides[t[i].s])
                  /\ t[i].s \notin DOMAIN answer.overrides =>
                        answer.value[i].s = Stringified(answer.params.map[t[i].s])

\* x was given in the mapping and as an override, y in the mapping only
C26_Witness ==
    /\ Rendered
    /\ answer.operation = "a"
    /\ DOMAIN answer.params.map = {"x", "y"}
    /\ DOMAIN answer.overrides = {"x"}
    /\ answer.params.map["x"] # answer.overrides["x"]
    /\ answer.out = "ok"
    /\ answer.value = <<[k |-> "text", s |-> "match "],
                        [k |-> "text", s |-> "None"],
                        [k |-> "text", s |-> " has "],
                        [k |-> "text", s |-> "P"]>>

----------------------------------------------------------------------------
\* C27: get_operation called with a params argument that is not a mapping,
\* empty or not, fails with OperationError and returns no query.
C27_NonMapping ==
    Rendered /\ Known /\ answer.params.kind = "list" =>
        /\ answer.out = "OperationError"
        /\ answer.value = <<>>

----------------------------------------------------------------------------
\* C28: for an operation name that is not in the loaded catalog,
\* get_operation, required_params and describe_operation fail with
\* OperationError for the unknown operation whatever parameters are passed,
\* and has_operation returns false.
C28_UnknownOperation ==
    loaded.out = "ok" /\ answer.call # "none" /\ ~Known =>
        IF answer.call = "has_operation"
        THEN answer.out = "ok" /\ answer.value = <<[k |-> "text", s |-> "False"]>>
        ELSE /\ answer.out = "OperationError"
             /\ answer.why = "unknown"
             /\ answer.value = <<>>

\* get_operation on an unknown operation was given a non-empty params
\* argument that is no mapping, and an undeclared override
C28_Witness ==
    /\ Rendered /\ ~Known
    /\ answer.params.kind = "list" /\ answer.params.truthy
    /\ DOMAIN answer.overrides = {"x", "z"}
    /\ answer.out = "OperationError"
    /\ answer.why = "unknown"

----------------------------------------------------------------------------
\* this step is the caller adding names to the collection it holds
CallerStep ==
    /\ held.kind # "none"
    /\ held'.kind = held.kind
    /\ answer' = answer
    /\ held.names \subseteq held'.names
    /\ held.names # held'.names

\* C29: after the load no call of has_operation, required_params,
\* describe_operation or get_operation, and no change a caller makes to the
\* set or the list it was handed, changes the set of operations, a template
\* or a required-parameter set; get_operation leaves the caller's params
\* mapping with the keys it had.
C29_CatalogFrozen ==
    [][loaded.out = "ok" =>
         /\ _operations' = _operations
         /\ held'.kind = "params" /\ ~CallerStep =>
               held'.names = DOMAIN answer'.params.map]_vars

\* the caller added z to the set required_params returned for operation a,
\* whose declared parameters still are x and y
C29_Witness ==
    /\ loaded.out = "ok"
    /\ held.kind = "set"
    /\ held.operation = "a"
    /\ held.names = {"x", "y", "z"}
    /\ _operations["a"].params = {"x", "y"}

----------------------------------------------------------------------------
\* the methods that accept an optional version
OptionalVersionOps ==
    {"node-create", "node-update", "node-delete", "edge-create", "edge-update",
     "edge-delete", "graph-by-version-get", "graph-by-version-delete"}

\* C30: a method with an optional version that is called without a version
\* while no active version is cached fails with ActiveVersionError, whether
\* or not its query could be rendered, without any engine call and without
\* any change of the database.
C30_ResolveFirst ==
    [][/\ lastCall'.op \in OptionalVersionOps
       /\ lastCall'.version = None
       /\ active_version = None
       => /\ lastCall'.outcome = "ActiveVersionError"
          /\ error' = "ActiveVersionError"
          /\ engine' = <<>>
          /\ store' = store
          /\ returned' = None]_vars

\* edge_update was called without a version on a client with an empty
\* cache, and made no engine call
C30_Witness ==
    /\ active_version = None
    /\ lastCall.op = "edge-update"
    /\ lastCall.version = None
    /\ lastCall.outcome = "ActiveVersionError"
    /\ engine = <<>>

----------------------------------------------------------------------------
(* C31: in a write call the query is rendered before its transaction is    *)
(* opened (a call that failed to render made no engine call for that       *)
(* query), commit is invoked only right after the query resolved           *)
(* successfully, a failed query is followed by the close and never by a    *)
(* commit, and close follows commit; in a read call the documents are      *)
(* materialised after the query and before the close, and a call returns   *)
(* documents only when they were materialised inside the transaction.      *)
C31_EventOrder ==
    lastCall.op \in DomainOps =>
       /\ lastCall.outcome = "TemplateProcessingError" =>
             \A i \in 1..Len(engine) : engine[i].q # lastCall.op
       /\ \A j \in CallsNamed("commit") :
             /\ j > 2 /\ j < Len(engine)
             /\ engine[j - 2] = EngineCall("transaction", engine[j].tx, engine[j].q, TRUE)
             /\ engine[j - 1] = EngineCall("query", engine[j].tx, engine[j].q, TRUE)
             /\ engine[j + 1].call = "close"
             /\ engine[j].tx \in {"WRITE", "SCHEMA"}
       /\ \A j \in CallsNamed("query") :
             ~engine[j].ok => j < Len(engine) /\ engine[j + 1].call = "close"
       /\ \A j \in CallsNamed("as_concept_documents") :
             /\ j > 2 /\ j < Len(engine)
             /\ engine[j - 2] = EngineCall("transaction", "READ", engine[j].q, TRUE)
             /\ engine[j - 1] = EngineCall("query", "READ", engine[j].q, TRUE)
             /\ engine[j + 1].call = "close"
       /\ lastDocs # <<>> =>
             \E j \in CallsNamed("as_concept_documents") : engine[j].ok
       /\ (lastCall.outcome = "ok" /\ lastCall.op \in WriteOps) =>
             \E j \in CallsNamed("commit") : engine[j].ok /\ engine[j].q = lastCall.op

\* the query of a write call failed: it was closed without a commit
C31_Witness ==
    /\ lastCall.op = "node-create"
    /\ lastCall.outcome = "QueryExecutionError"
    /\ Len(engine) = 3
    /\ engine[2] = EngineCall("query", "WRITE", "node-create", FALSE)
    /\ engine[3].call = "close"

----------------------------------------------------------------------------
\* an engine call of the last client call, other than a close, raised
EngineFailed ==
    \E i \in 1..Len(engine) : engine[i].call # "close" /\ ~engine[i].ok

\* what a domain method raises that is no exception of the engine or of the
\* template driver
Translated ==
    {"QueryExecutionError", "TemplateProcessingError", "ActiveVersionError",
     "OperationIsNotAllowed", "TypeDBClientError", "NameError"}

(* C32 as stated: a failure to open, query, commit or materialise surfaces  *)
(* as QueryExecutionError, a failure to render as TemplateProcessingError   *)
(* with no transaction having been opened, and no engine or driver          *)
(* exception leaves a domain method untranslated.                           *)
C32_Original ==
    lastCall.op \in DomainOps =>
       /\ EngineFailed => lastCall.outcome = "QueryExecutionError"
       /\ lastCall.outcome = "TemplateProcessingError" => engine = <<>>
       /\ lastCall.outcome \in Translated \cup {"ok"}

(* C32: a failure to open, query, commit or materialise surfaces as         *)
(* QueryExecutionError and no engine or driver exception leaves a domain    *)
(* method untranslated; a failure to render surfaces as                     *)
(* TemplateProcessingError with no transaction opened for that query: no    *)
(* engine call at all, except in investigation_create, whose SCHEMA         *)
(* transaction has by then been opened, committed and closed.               *)
C32_ErrorTranslation ==
    lastCall.op \in DomainOps =>
       /\ EngineFailed => lastCall.outcome = "QueryExecutionError"
       /\ lastCall.outcome \in Translated \cup {"ok"}
       /\ lastCall.outcome = "ok" => engine # <<>> /\ ~EngineFailed
       /\ lastCall.outcome = "TemplateProcessingError" =>
             IF lastCall.op = "investigation-create"
             THEN /\ Len(engine) = 4
                  /\ engine[1] = EngineCall("transaction", "SCHEMA", "schema", TRUE)
                  /\ engine[2] = EngineCall("query", "SCHEMA", "schema", TRUE)
                  /\ engine[3] = EngineCall("commit", "SCHEMA", "schema", TRUE)
                  /\ engine[4].call = "close" /\ engine[4].tx = "SCHEMA"
             ELSE engine = <<>>

\* investigation-create could not be rendered after the schema was applied
C32_Witness ==
    /\ lastCall.op = "investigation-create"
    /\ lastCall.outcome = "TemplateProcessingError"
    /\ CallsNamed("commit") = {3}

----------------------------------------------------------------------------
\* the constructor opened the engine session and the catalog load failed
LoadFailed ==
    /\ lastCall.op = "__init__"
    /\ engine # <<>>
    /\ engine[1] = EngineCall("TypeDB.driver", "none", "none", TRUE)
    /\ loaded.out \notin {"no", "ok"}

(* C33: when the catalog load fails after the engine session was opened,   *)
(* the session's close is invoked once before the constructor raises,      *)
(* whatever the load failed with; whether that close returns or raises,    *)
(* the constructor reports the catalog error: TemplateProcessingError for  *)
(* the driver's SpecificationError and TemplateFileError, and               *)
(* TypeDBClientError for anything else.  A successful construction leaves   *)
(* the session open.                                                        *)
C33_NoLeakedSession ==
    /\ LoadFailed =>
          /\ Len(engine) = 2
          /\ engine[2].call = "driver.close"
          /\ lastCall.outcome =
                IF loaded.out \in {"SpecificationError", "TemplateFileError"}
                THEN "TemplateProcessingError" ELSE "TypeDBClientError"
          /\ error = lastCall.outcome
          /\ _operations = Empty
    /\ (lastCall.op = "__init__" /\ lastCall.outcome = "ok") =>
          /\ Len(engine) = 1
          /\ loaded.out = "ok"

\* a template file was absent and the close of the session raised as well
C33_Witness ==
    /\ LoadFailed
    /\ loaded.out = "TemplateFileError"
    /\ engine[2] = EngineCall("driver.close", "none", "none", FALSE)
    /\ lastCall.outcome = "TemplateProcessingError"

----------------------------------------------------------------------------
(* C34: when the graph_by_version_get at the start of update_graph fails,  *)
(* update_graph fails with that error, QueryExecutionError, has issued no   *)
(* write call and has none left to issue, and the database is as it was.    *)
C34_ReadFailure ==
    [][(calls' = calls + 1 /\ error' # "none") =>
          /\ pc' = "failed"
          /\ error' = "QueryExecutionError"
          /\ failed' = <<>>
          /\ log' = <<>>
          /\ pending' = <<>>
          /\ reads' = 1
          /\ store' = store]_vars

\* the read of a version that holds a node failed, with a desired graph
\* that differs from the persisted one
C34_Witness ==
    /\ pc = "failed"
    /\ failed = <<>>
    /\ error = "QueryExecutionError"
    /\ version \in store.versions
    /\ DOMAIN store.nodes[version] # {}
    /\ nodes = <<>>
    /\ log = <<>>

----------------------------------------------------------------------------
(* C35: every write call update_graph(version = v, ...) issues carries the *)
(* version v, and no step of the call changes the nodes or the edges of    *)
(* another version, the set of versions, the store's active version or the *)
(* client's cached active version.                                         *)
C35_SyncFrame ==
    [][pc' # "idle" =>
          /\ \A i \in DOMAIN pending' : pending'[i].version = version'
          /\ \A i \in DOMAIN log' : log'[i].version = version'
          /\ \A i \in DOMAIN failed' : failed'[i].version = version'
          /\ \A w \in Versions \ {version'} :
                /\ store'.nodes[w] = store.nodes[w]
                /\ store'.edges[w] = store.edges[w]
          /\ store'.versions = store.versions
          /\ store'.active = store.active
          /\ active_version' = active_version]_vars

\* update_graph on v1 has written while the cache and the store's active
\* version are v2, and v2 still holds its graph
C35_Witness ==
    /\ pc = "done"
    /\ version = "v1"
    /\ Len(log) >= 2
    /\ active_version = "v2"
    /\ store.active = "v2"
    /\ DOMAIN store.nodes["v2"] = {"1"}
    /\ DOMAIN store.edges["v2"] = {"1"}

----------------------------------------------------------------------------
\* every edge of version v in st ends at nodes of version v
StoreClosed(st, v) ==
    \A k \in DOMAIN st.edges[v] :
       /\ st.edges[v][k].node1 \in DOMAIN st.nodes[v]
       /\ st.edges[v][k].node2 \in DOMAIN st.nodes[v]

\* every edge update_graph read ends at nodes it read
PersistedClosed ==
    \A i \in DOMAIN db_edges :
       /\ db_edges[i].node1 \in PersistedNodeIds
       /\ db_edges[i].node2 \in PersistedNodeIds

\* every desired edge ends at desired nodes
DesiredClosed ==
    \A i \in DOMAIN edges :
       /\ StrId(edges[i].node1) \in DesiredNodeIds
       /\ StrId(edges[i].node2) \in DesiredNodeIds

(* C36: when the persisted graph and the desired graph are both            *)
(* referentially closed, every persisted edge has both endpoints persisted *)
(* as nodes in every state between two write calls of one update_graph.    *)
C36_NoDanglingEdge ==
    (pc \in {"run", "failed", "done"} /\ PersistedClosed /\ DesiredClosed) =>
        StoreClosed(store, version)

----------------------------------------------------------------------------
(* C37: when the desired graph is referentially closed, both endpoint node *)
(* ids of every edge_create update_graph is about to issue, for a new edge *)
(* or for an edge whose endpoints changed, are persisted in the version.   *)
C37_NodesBeforeEdges ==
    (pc = "run" /\ DesiredClosed /\ Head(pending).op = "edge-create") =>
        /\ Head(pending).node1_id \in DOMAIN store.nodes[version]
        /\ Head(pending).node2_id \in DOMAIN store.nodes[version]

\* the edge about to be created ends at two nodes this call created
C37_Witness ==
    /\ pc = "run"
    /\ DesiredClosed
    /\ Head(pending).op = "edge-create"
    /\ Head(pending).node1_id # Head(pending).node2_id
    /\ \A n \in {Head(pending).node1_id, Head(pending).node2_id} :
          \E i \in DOMAIN log : log[i].op = "node-create" /\ log[i].node_id = n

----------------------------------------------------------------------------
\* the positions of the calls of cs on node id k, and on edge id k
NodeCallsOn(cs, k) ==
    {i \in 1..Len(cs) : cs[i].op \in NodeOps /\ cs[i].node_id = k}
EdgeCallsOn(cs, k) ==
    {i \in 1..Len(cs) : cs[i].op \in EdgeOps /\ cs[i].edge_id = k}

\* the edge of id k is persisted and desired, with other endpoints
EndpointsChanged(k) ==
    /\ k \in PersistedEdgeIds \cap DesiredEdgeIds
    /\ ~SameEndpoints(PersistedEdge(k), DesiredEdge(k))

(* C38: the calls of one update_graph hold at most one call for each node  *)
(* id and at most one for each edge id, except for an edge whose endpoints *)
(* changed, which gets exactly two, its delete directly followed by its    *)
(* create; this holds also when a desired list names an id more than once, *)
(* and the call then carries the values of the last element with that id.  *)
C38_OneCallPerEntity ==
    pc # "idle" =>
      /\ \A n \in NodeIds : Cardinality(NodeCallsOn(Plan, StrId(n))) <= 1
      /\ \A e \in EdgeIds :
           LET k == StrId(e)
               on == EdgeCallsOn(Plan, k)
           IN  IF EndpointsChanged(k)
               THEN \E i \in 1..Len(Plan) :
                       /\ on = {i, i + 1}
                       /\ Plan[i].op = "edge-delete"
                       /\ Plan[i + 1].op = "edge-create"
               ELSE Cardinality(on) <= 1
      /\ \A i \in 1..Len(Plan) :
           /\ Plan[i].op \in {"node-create", "node-update"} =>
                LET o == DesiredNode(Plan[i].node_id)
                IN  /\ Plan[i].name = o.name
                    /\ Plan[i].pos_x = o.pos_x
                    /\ Plan[i].pos_y = o.pos_y
                    /\ Plan[i].picture_path = o.picture_path
                    /\ Plan[i].description = o.description
           /\ Plan[i].op = "edge-create" =>
                LET o == DesiredEdge(Plan[i].edge_id)
                IN  /\ Plan[i].node1_id = StrId(o.node1)
                    /\ Plan[i].node2_id = StrId(o.node2)
                    /\ Plan[i].description = o.description
           /\ Plan[i].op = "edge-update" =>
                Plan[i].description = DesiredEdge(Plan[i].edge_id).description

\* the desired list names one node id twice, with different names: the one
\* call for it carries the second name
C38_Witness ==
    /\ pc = "done"
    /\ Len(nodes) = 2
    /\ nodes[1].node_id = nodes[2].node_id
    /\ nodes[1].name # nodes[2].name
    /\ Len(log) = 1
    /\ log[1].op = "node-create"
    /\ log[1].name = nodes[2].name

----------------------------------------------------------------------------
(* C39: a load_active_version that fails, because the query cannot be      *)
(* built, the read fails or no document gives an active version, leaves    *)
(* the cached active version as it was, None or the version cached before; *)
(* a later call that omits the version resolves to the cached version.     *)
C39_FailedLoadKeepsCache ==
    [][/\ (lastCall'.op = "get-active-version" /\ lastCall'.outcome # "ok") =>
            /\ lastCall'.outcome \in {"TemplateProcessingError", "QueryExecutionError",
                                      "ActiveVersionError"}
            /\ active_version' = active_version
            /\ lastCached' = lastCached
       /\ (lastCall'.op \in OptionalVersionOps /\ lastCall'.version = None
             /\ active_version # None) =>
            /\ lastCall'.resolved = active_version
            /\ lastCall'.outcome # "ActiveVersionError"
            /\ active_version' = active_version]_vars

\* the load found no active version while v1 was cached, and v1 stays cached
C39_Witness ==
    /\ lastCall.op = "get-active-version"
    /\ lastCall.outcome = "ActiveVersionError"
    /\ lastDocs # <<>>
    /\ active_version = "v1"
    /\ lastCached = "v1"

====
